---- MODULE Spec2Model ----
(***************************************************************************)
(* A model of the API Farm server (src/api_farm/server.py): the KeyPool    *)
(* (ownership relation, upstream clients, rotation list, keys.json), the   *)
(* /keys endpoints that drive it and the /chat/completions dispatch that   *)
(* iterates a snapshot of the pool.                                        *)
(*                                                                         *)
(* Requests are handled by coroutines of one event loop.  A request is     *)
(* received (Call), runs its KeyPool method under KeyPool._lock, and its   *)
(* response is delivered (Return).  A KeyPool method holds no await inside *)
(* its critical section; remove_key is nevertheless modelled in two steps  *)
(* under the lock (the edge removal, then the check for other owners), so  *)
(* that the lock is what makes the check-then-remove atomic.               *)
(***************************************************************************)
EXTENDS Integers, Sequences, FiniteSets, TLC

\* ---------------------------------------------------------------- inputs
Users == {"u1", "u2"}
Keys == {"k1", "k2"}
DefaultBaseUrl == "https://integrate.api.nvidia.com/v1"
Urls == {DefaultBaseUrl, "https://alt.example/v1"}

\* The number of requests the server handles concurrently (SpecConc).
NumProcs == 2
Procs == 1..NumProcs
NoProc == 0
\* Spec takes the requests one at a time.
SeqProcs == {1}
\* SpecConc draws its requests from one credential and one endpoint.
ConcKeys == {"k1"}
ConcUrls == {DefaultBaseUrl}
\* SpecSnap runs a chat request beside one other request, all of one user.
SnapProcs == {1, 2}
SnapUsers == {"u1"}

\* ------------------------------------------------- python values, helpers
\* A Python dict user_id -> List[api_key] keeps insertion order: a sequence
\* of entries, one per user_id.
DictHas(d, u) == \E i \in 1..Len(d) : d[i].uid = u
DictIndex(d, u) == CHOOSE i \in 1..Len(d) : d[i].uid = u
DictGet(d, u) == d[DictIndex(d, u)].keys
DictGetOr(d, u, dflt) == IF DictHas(d, u) THEN DictGet(d, u) ELSE dflt
DictSet(d, u, v) ==
    IF DictHas(d, u)
    THEN [d EXCEPT ![DictIndex(d, u)].keys = v]
    ELSE Append(d, [uid |-> u, keys |-> v])

\* x in list
ListHas(s, x) == \E i \in 1..Len(s) : s[i] = x
\* list.remove(x): deletes the first occurrence of x
ListRemove(s, x) ==
    LET i == CHOOSE j \in 1..Len(s) : s[j] = x /\ \A m \in 1..(j - 1) : s[m] # x
    IN  SubSeq(s, 1, i - 1) \o SubSeq(s, i + 1, Len(s))
\* (mutant) list.insert(0, x) in place of list.append(x)
ListPrepend(s, x) == <<x>> \o s
\* list.append(x)
ListAppend(s, x) == Append(s, x)

SeqSet(s) == {s[i] : i \in 1..Len(s)}
NoDup(s) == \A i, j \in 1..Len(s) : s[i] = s[j] => i = j

\* An AsyncOpenAI client is what it was constructed with.
NoClient == "no-client"
Client(k, url) == [api_key |-> k, base_url |-> url]
NoHandle == Client("-", "-")

NoRequest == [op |-> "none", user_id |-> "-", api_key |-> "-", base_url |-> "-"]
\* None where a user_id is expected; the token value no login ever returns
NoUserId == "-"
NoToken == 0
NoResult ==
    [code |-> 0, detail |-> "-", keys |-> <<>>, handle |-> NoHandle,
     user_id |-> NoUserId, token |-> NoToken]

VARIABLES
    user_keys,   \* KeyPool.user_keys: dict user_id -> list of api_key
    clients,     \* KeyPool.clients: api_key -> base_url of its client, or NoClient
    all_keys,    \* KeyPool.all_keys: the rotation list
    keys_json,   \* the file keys.json
    lock,        \* KeyPool._lock: the process inside the critical section, or NoProc
    pc,          \* where each request is
    req,         \* the request each process is handling
    result,      \* the HTTP response each process is about to deliver
    snap,        \* chat_completions' local variable clients
    attempts,    \* the handles a dispatch has called so far, in order
    users,       \* UserManager.users: username -> {password, user_id}, or NoUser
    tokens,      \* UserManager.tokens: dict token -> user_id
    users_json,  \* the file users.json
    issued,      \* how many tokens secrets.token_hex has produced
    args,        \* what each request carries for the user manager, and is_new
    obs,         \* history (Spec): the pool before and after each request's pool call
    added,       \* history (Spec): per user, the owned secrets in the order of their adds
    hist,        \* history (SpecConc): which adds and removals have completed
    replies,     \* history (Spec): what the upstream answered to each call of a dispatch
    sess,        \* history (SpecAuth): registrations, logins and logouts so far
    batch,       \* a call of batch_chat_completions: its locals and its outcome
    blog,        \* history (SpecBatch): the tasks of the batch in completion order
    sdk,         \* the APIPoolClient object: how it was constructed and what it holds
    rr           \* a MultiKeyClientPool and the requests of the safe_ask_batch on it

model_vars == <<user_keys, clients, all_keys, keys_json, lock, pc, req, result, snap, attempts>>
auth_vars == <<users, tokens, users_json, issued, args>>
client_vars == <<batch, blog, sdk, rr>>
vars == <<model_vars, auth_vars, obs, added, hist, replies, sess, client_vars>>

\* ------------------------------------------------------------- persistence
\* A file: whether it is there, whether json.load can read it, and what
\* json.load returns if it can.
\* json.dump({"user_keys": self.user_keys}, f)
JsonDump(uk) == [exists |-> TRUE, json |-> TRUE, data |-> [user_keys |-> uk]]
NoFile == [exists |-> FALSE, json |-> TRUE, data |-> [user_keys |-> <<>>]]
\* a keys.json that json.load raises on
NotJson == [exists |-> TRUE, json |-> FALSE, data |-> [user_keys |-> <<>>]]
\* what stands in keys.json for a user whose value is not a list: the
\* `for key in keys` of load_keys raises on it
NotAList == <<"not-a-list">>

\* save_keys
save_keys(uk) == JsonDump(uk)

RECURSIVE LoadKeyList(_, _, _)
\* the inner loop of load_keys over one user's keys
LoadKeyList(keys, cl, ak) ==
    IF keys = <<>> THEN [clients |-> cl, all_keys |-> ak]
    ELSE LET k == Head(keys) IN
         IF cl[k] # NoClient
         THEN LoadKeyList(Tail(keys), cl, ak)
         ELSE LoadKeyList(Tail(keys), [cl EXCEPT ![k] = DefaultBaseUrl], ListAppend(ak, k))

RECURSIVE LoadUsers(_, _, _)
\* the outer loop of load_keys over user_keys.items()
LoadUsers(d, cl, ak) ==
    IF d = <<>> THEN [clients |-> cl, all_keys |-> ak]
    ELSE IF Head(d).keys = NotAList THEN [clients |-> cl, all_keys |-> ak]
    ELSE LET r == LoadKeyList(Head(d).keys, cl, ak)
         IN  LoadUsers(Tail(d), r.clients, r.all_keys)

EmptyClients == [k \in Keys |-> NoClient]

\* KeyPool.__init__ followed by load_keys
load_keys(file) ==
    IF ~file.exists \/ ~file.json
    THEN [user_keys |-> <<>>, clients |-> EmptyClients, all_keys |-> <<>>]
    ELSE LET uk == file.data.user_keys
             r == LoadUsers(uk, EmptyClients, <<>>)
         IN  [user_keys |-> uk, clients |-> r.clients, all_keys |-> r.all_keys]

\* ---------------------------------------------------------------- KeyPool
\* (mutant) the loop over the other users' lists is skipped
IsUsedNever(uk, k) == FALSE
\* is_used: the loop of remove_key over user_keys.items()
IsUsed(uk, k) == \E i \in 1..Len(uk) : ListHas(uk[i].keys, k)

\* (mutant) the handle is left in the clients map and the rotation list
remove_from_pool_kept(cl, ak, k) == [clients |-> cl, all_keys |-> ak]
\* (mutant) the client is deleted and the rotation list keeps the credential
remove_from_pool_half(cl, ak, k) ==
    [clients |-> IF cl[k] # NoClient THEN [cl EXCEPT ![k] = NoClient] ELSE cl,
     all_keys |-> ak]
\* remove_key, "Remove from global pool": the clients map and rotation list after it
remove_from_pool(cl, ak, k) ==
    [clients |-> IF cl[k] # NoClient THEN [cl EXCEPT ![k] = NoClient] ELSE cl,
     all_keys |-> IF ListHas(ak, k) THEN ListRemove(ak, k) ELSE ak]

\* ensure_user_init, and the first statement of add_key
EnsureUser(uk, u) == IF DictHas(uk, u) THEN uk ELSE DictSet(uk, u, <<>>)

\* (mutant) add_key without the "if api_key not in self.user_keys[user_id]" test
add_key_dup(uk, cl, ak, file, u, k, url) ==
    LET uk1 == IF DictHas(uk, u) THEN uk ELSE DictSet(uk, u, <<>>)
        uk2 == DictSet(uk1, u, Append(DictGet(uk1, u), k))
    IN  IF cl[k] # NoClient
        THEN [user_keys |-> uk2, clients |-> cl, all_keys |-> ak, keys_json |-> file]
        ELSE [user_keys |-> uk2, clients |-> [cl EXCEPT ![k] = url],
              all_keys |-> Append(ak, k), keys_json |-> JsonDump(uk2)]

\* (mutant) add_key that binds a new client to the endpoint given, known key or not
add_key_rebind(uk, cl, ak, file, u, k, url) ==
    LET uk1 == IF DictHas(uk, u) THEN uk ELSE DictSet(uk, u, <<>>)
        uk2 == IF ListHas(DictGet(uk1, u), k) THEN uk1
               ELSE DictSet(uk1, u, Append(DictGet(uk1, u), k))
    IN  IF cl[k] # NoClient
        THEN [user_keys |-> uk2, clients |-> [cl EXCEPT ![k] = url], all_keys |-> ak,
              keys_json |-> file]
        ELSE [user_keys |-> uk2, clients |-> [cl EXCEPT ![k] = url],
              all_keys |-> Append(ak, k), keys_json |-> JsonDump(uk2)]

\* KeyPool.add_key, the body under the lock: the pool after it
add_key(uk, cl, ak, file, u, k, url) ==
    LET uk1 == EnsureUser(uk, u) IN
    IF cl[k] # NoClient
    THEN [user_keys |-> IF ListHas(DictGet(uk1, u), k) THEN uk1
                        ELSE DictSet(uk1, u, ListAppend(DictGet(uk1, u), k)),
          clients |-> cl, all_keys |-> ak, keys_json |-> file]
    ELSE LET uk2 == DictSet(uk1, u, ListAppend(DictGet(uk1, u), k)) IN
         [user_keys |-> uk2,
          clients |-> [cl EXCEPT ![k] = url],
          all_keys |-> ListAppend(ak, k),
          keys_json |-> save_keys(uk2)]

\* KeyPool.get_user_keys
get_user_keys(uk, u) == DictGetOr(uk, u, <<>>)

\* (mutant) random.choices(keys, k=len(keys)): drawn with replacement
ShufflesWithRepeats(s) == [1..Len(s) -> SeqSet(s)]

\* random.shuffle(keys): every ordering of the list
Shuffles(s) ==
    {t \in [1..Len(s) -> SeqSet(s)] :
        \E f \in [1..Len(s) -> 1..Len(s)] :
            /\ \A i, j \in 1..Len(s) : f[i] = f[j] => i = j
            /\ \A i \in 1..Len(s) : t[i] = s[f[i]]}

\* [self.clients[k] for k in keys]
ClientsOf(cl, keys) == [i \in 1..Len(keys) |-> Client(keys[i], cl[keys[i]])]

\* ------------------------------------------------------ HTTP endpoints
Ok(msg) == [NoResult EXCEPT !.code = 200, !.detail = msg]
HttpError(code, msg) == [NoResult EXCEPT !.code = code, !.detail = msg]

\* DELETE /keys: what the endpoint makes of remove_key's return value
RemoveReturned(msg) == Ok(msg)
\* DELETE /keys: what the endpoint makes of remove_key's ValueError
RemoveRaised(msg) == HttpError(404, msg)

\* ------------------------------------------------------------ UserManager
Usernames == {"alice", "bob"}
Passwords == {"pw1", "pw2"}
\* secrets.token_hex(16) returns a value it has not returned before: the
\* tokens are numbered in the order they are produced, at most MaxTokens of them
MaxTokens == 2

NoUser == [password |-> "-", user_id |-> NoUserId]
EmptyUsers == [n \in Usernames |-> NoUser]
NoTokens == [t \in {} |-> NoUserId]

\* json.dump(self.users, f) / json.load(f): a dict of dicts of strings comes
\* back as it was written
NoUsersFile == [exists |-> FALSE, json |-> TRUE, data |-> EmptyUsers]
save_users(us) == [exists |-> TRUE, json |-> TRUE, data |-> us]
\* a users.json that json.load raises on
NotJsonUsers == [exists |-> TRUE, json |-> FALSE, data |-> EmptyUsers]
\* (mutant) the user table starts empty whatever users.json holds
load_users_lost(file) == EmptyUsers
load_users(file) == IF file.exists /\ file.json THEN file.data ELSE EmptyUsers

\* str(uuid.uuid4()): an identifier no user has yet
FreshIds(us) == Users \ {us[n].user_id : n \in Usernames}

\* UserManager.register
register(us, file, username, password, new_id) ==
    IF us[username] # NoUser
    THEN [users |-> us, users_json |-> file,
          user_id |-> us[username].user_id, is_new |-> FALSE]
    ELSE [users |-> [us EXCEPT ![username] = [password |-> password, user_id |-> new_id]],
          users_json |->
            save_users([us EXCEPT ![username] = [password |-> password, user_id |-> new_id]]),
          user_id |-> new_id, is_new |-> TRUE]

\* (mutant) login does not compare the password
login_any_password(us, tk, username, password, token) ==
    IF us[username] = NoUser
    THEN [ok |-> FALSE, tokens |-> tk, token |-> NoToken, user_id |-> NoUserId]
    ELSE [ok |-> TRUE, tokens |-> (token :> us[username].user_id) @@ tk,
          token |-> token, user_id |-> us[username].user_id]

\* (mutant) a login ends the user's earlier sessions
login_single_session(us, tk, username, password, token) ==
    IF us[username] = NoUser \/ us[username].password # password
    THEN [ok |-> FALSE, tokens |-> tk, token |-> NoToken, user_id |-> NoUserId]
    ELSE [ok |-> TRUE,
          tokens |-> (token :> us[username].user_id) @@
                     [t \in {x \in DOMAIN tk : tk[x] # us[username].user_id} |-> tk[t]],
          token |-> token, user_id |-> us[username].user_id]

\* UserManager.login; token is what secrets.token_hex(16) returns
login(us, tk, username, password, token) ==
    IF us[username] = NoUser \/ us[username].password # password
    THEN [ok |-> FALSE, tokens |-> tk, token |-> NoToken, user_id |-> NoUserId]
    ELSE [ok |-> TRUE, tokens |-> (token :> us[username].user_id) @@ tk,
          token |-> token, user_id |-> us[username].user_id]

\* (mutant) a token that is not in the table resolves to the first user
get_user_id_by_token_lax(tk, token) ==
    IF token \in DOMAIN tk THEN tk[token] ELSE CHOOSE u \in Users : TRUE

\* UserManager.get_user_id_by_token: self.tokens.get(token)
get_user_id_by_token(tk, token) ==
    IF token \in DOMAIN tk THEN tk[token] ELSE NoUserId

\* (mutant) a logout with a token that is not in the table empties the table
logout_clearing(tk, token) ==
    IF token \in DOMAIN tk THEN [t \in DOMAIN tk \ {token} |-> tk[t]] ELSE NoTokens

\* (mutant) logout answers without deleting the token
logout_kept(tk, token) == tk

\* UserManager.logout
logout(tk, token) ==
    IF token \in DOMAIN tk THEN [t \in DOMAIN tk \ {token} |-> tk[t]] ELSE tk

\* register_user's response
RegisterResponse(is_new, user_id) ==
    IF is_new
    THEN [Ok("User registered successfully") EXCEPT !.user_id = user_id]
    ELSE [Ok("User already exists") EXCEPT !.user_id = NoUserId]

\* args[p]: the bearer token or the username and password of p's request,
\* the stream flag of a chat request (ChatCompletionRequest.stream, False
\* when the body has none), and the is_new of register_user; a request that did not come through
\* UserManager.register initialises the list of a new user
NoArgs ==
    [token |-> NoToken, username |-> "-", password |-> "-", is_new |-> TRUE,
     stream |-> FALSE]

InitAuth(P) ==
    /\ users_json = NoUsersFile
    /\ users = load_users(NoUsersFile)
    /\ tokens = NoTokens
    /\ issued = 0
    /\ args = [p \in P |-> NoArgs]

InitFor(P) ==
    /\ keys_json = NoFile
    /\ user_keys = load_keys(NoFile).user_keys
    /\ clients = load_keys(NoFile).clients
    /\ all_keys = load_keys(NoFile).all_keys
    /\ lock = NoProc
    /\ pc = [p \in P |-> "idle"]
    /\ req = [p \in P |-> NoRequest]
    /\ result = [p \in P |-> NoResult]
    /\ snap = [p \in P |-> <<>>]
    /\ attempts = [p \in P |-> <<>>]

Requests(K, B) ==
    {[op |-> "add", user_id |-> u, api_key |-> k, base_url |-> b] :
        u \in Users, k \in K, b \in B}
    \cup {[op |-> "remove", user_id |-> u, api_key |-> k, base_url |-> "-"] :
        u \in Users, k \in K}
    \cup {[op |-> "chat", user_id |-> "-", api_key |-> "-", base_url |-> "-"]}
\* the requests that read or initialise one user's list
UserRequests ==
    {[op |-> "list", user_id |-> u, api_key |-> "-", base_url |-> "-"] : u \in Users}
    \cup {[op |-> "init", user_id |-> u, api_key |-> "-", base_url |-> "-"] : u \in Users}

\* A request arrives and its handler is about to call into the pool.
Call(p, R) ==
    /\ pc[p] = "idle"
    /\ \E r \in R : req' = [req EXCEPT ![p] = r]
    /\ pc' = [pc EXCEPT ![p] = "wait"]
    /\ UNCHANGED <<user_keys, clients, all_keys, keys_json, lock, result, snap, attempts>>

\* async with self._lock: the lock is taken when nobody holds it
LockFree == lock = NoProc

\* register_user's call of pool.ensure_user_init
EnsureUserInit(p) ==
    /\ pc[p] = "wait" /\ req[p].op = "init" /\ LockFree
    /\ user_keys' = EnsureUser(user_keys, req[p].user_id)
    /\ result' = [result EXCEPT ![p] = RegisterResponse(args[p].is_new, req[p].user_id)]
    /\ pc' = [pc EXCEPT ![p] = "ret"]
    /\ UNCHANGED <<clients, all_keys, keys_json, lock, req, snap, attempts>>

\* POST /keys: pool.add_key, then {"status": "ok", "message": "Key added"}
AddKey(p) ==
    /\ pc[p] = "wait" /\ req[p].op = "add" /\ LockFree
    /\ LET r == add_key(user_keys, clients, all_keys, keys_json,
                        req[p].user_id, req[p].api_key, req[p].base_url)
       IN  /\ user_keys' = r.user_keys
           /\ clients' = r.clients
           /\ all_keys' = r.all_keys
           /\ keys_json' = r.keys_json
    /\ result' = [result EXCEPT ![p] = Ok("Key added")]
    /\ pc' = [pc EXCEPT ![p] = "ret"]
    /\ UNCHANGED <<lock, req, snap, attempts>>

\* DELETE /keys, remove_key up to the removal of the caller's edge
RemoveKeyEnter(p) ==
    /\ pc[p] = "wait" /\ req[p].op = "remove" /\ LockFree
    /\ LET u == req[p].user_id
           k == req[p].api_key
       IN  IF ~DictHas(user_keys, u)
           THEN /\ result' = [result EXCEPT ![p] = RemoveReturned("User has no keys")]
                /\ pc' = [pc EXCEPT ![p] = "ret"]
                /\ UNCHANGED <<user_keys, lock>>
           ELSE IF ~ListHas(DictGet(user_keys, u), k)
           THEN /\ result' = [result EXCEPT ![p] = RemoveReturned("Key not found for this user")]
                /\ pc' = [pc EXCEPT ![p] = "ret"]
                /\ UNCHANGED <<user_keys, lock>>
           ELSE /\ user_keys' = DictSet(user_keys, u, ListRemove(DictGet(user_keys, u), k))
                /\ lock' = p
                /\ pc' = [pc EXCEPT ![p] = "locked"]
                /\ UNCHANGED result
    /\ UNCHANGED <<clients, all_keys, keys_json, req, snap, attempts>>

\* (mutant) the ValueError of remove_key leaves the lock taken
RemoveKeyCheckHolding(p) ==
    /\ pc[p] = "locked" /\ lock = p
    /\ LET k == req[p].api_key IN
       IF ~IsUsed(user_keys, k)
       THEN /\ clients' = remove_from_pool(clients, all_keys, k).clients
            /\ all_keys' = remove_from_pool(clients, all_keys, k).all_keys
            /\ keys_json' = save_keys(user_keys)
            /\ result' = [result EXCEPT ![p] = RemoveReturned("Key removed successfully")]
            /\ lock' = NoProc
       ELSE /\ result' = [result EXCEPT ![p] =
                            RemoveRaised("Key should not be used by any other user")]
            /\ UNCHANGED <<clients, all_keys, keys_json, lock>>
    /\ pc' = [pc EXCEPT ![p] = "ret"]
    /\ UNCHANGED <<user_keys, req, snap, attempts>>

\* remove_key from the check for other owners to the release of the lock
RemoveKeyCheck(p) ==
    /\ pc[p] = "locked" /\ lock = p
    /\ LET k == req[p].api_key IN
       IF ~IsUsed(user_keys, k)
       THEN /\ clients' = remove_from_pool(clients, all_keys, k).clients
            /\ all_keys' = remove_from_pool(clients, all_keys, k).all_keys
            /\ keys_json' = save_keys(user_keys)
            /\ result' = [result EXCEPT ![p] = RemoveReturned("Key removed successfully")]
       ELSE /\ result' = [result EXCEPT ![p] =
                            RemoveRaised("Key should not be used by any other user")]
            /\ UNCHANGED <<clients, all_keys, keys_json>>
    /\ lock' = NoProc
    /\ pc' = [pc EXCEPT ![p] = "ret"]
    /\ UNCHANGED <<user_keys, req, snap, attempts>>

\* GET /keys
ListKeys(p) ==
    /\ pc[p] = "wait" /\ req[p].op = "list" /\ LockFree
    /\ result' = [result EXCEPT ![p] =
                    [Ok("keys") EXCEPT !.keys = get_user_keys(user_keys, req[p].user_id)]]
    /\ pc' = [pc EXCEPT ![p] = "ret"]
    /\ UNCHANGED <<user_keys, clients, all_keys, keys_json, lock, req, snap, attempts>>

\* KeyPool.get_all_clients_snapshot: the lists it can return
get_all_clients_snapshot(cl, ak) ==
    IF ak = <<>> THEN {<<>>}
    ELSE {ClientsOf(cl, keys) : keys \in Shuffles(ak)}

\* (mutant) the dispatch loop is entered whatever the snapshot holds
PoolEmptyNever(s) == FALSE

\* if not clients
PoolEmpty(s) == s = <<>>

\* (mutant) the chat endpoint depends on get_current_user_id
SnapshotGated(p) ==
    /\ pc[p] = "wait" /\ req[p].op = "chat" /\ LockFree
    /\ IF get_user_id_by_token(tokens, args[p].token) = NoUserId
       THEN /\ result' = [result EXCEPT ![p] =
                    HttpError(401, "Invalid authentication credentials")]
            /\ pc' = [pc EXCEPT ![p] = "ret"]
            /\ UNCHANGED snap
       ELSE \E s \in get_all_clients_snapshot(clients, all_keys) :
            /\ snap' = [snap EXCEPT ![p] = s]
            /\ IF s = <<>>
               THEN /\ result' = [result EXCEPT ![p] =
                                    HttpError(503, "No API keys available in the pool")]
                    /\ pc' = [pc EXCEPT ![p] = "ret"]
               ELSE /\ pc' = [pc EXCEPT ![p] = "dispatch"]
                    /\ UNCHANGED result
    /\ UNCHANGED <<user_keys, clients, all_keys, keys_json, lock, req, attempts>>

\* (mutant) the dispatch loop runs inside the pool's critical section
SnapshotHoldingLock(p) ==
    /\ pc[p] = "wait" /\ req[p].op = "chat" /\ LockFree
    /\ \E s \in get_all_clients_snapshot(clients, all_keys) :
        /\ snap' = [snap EXCEPT ![p] = s]
        /\ IF PoolEmpty(s)
           THEN /\ result' = [result EXCEPT ![p] =
                                HttpError(503, "No API keys available in the pool")]
                /\ pc' = [pc EXCEPT ![p] = "ret"]
                /\ UNCHANGED lock
           ELSE /\ pc' = [pc EXCEPT ![p] = "dispatch"]
                /\ lock' = p
                /\ UNCHANGED result
    /\ UNCHANGED <<user_keys, clients, all_keys, keys_json, req, attempts>>

\* POST /chat/completions up to its first upstream call
Snapshot(p) ==
    /\ pc[p] = "wait" /\ req[p].op = "chat" /\ LockFree
    /\ \E s \in get_all_clients_snapshot(clients, all_keys) :
        /\ snap' = [snap EXCEPT ![p] = s]
        /\ IF PoolEmpty(s)
           THEN /\ result' = [result EXCEPT ![p] =
                                HttpError(503, "No API keys available in the pool")]
                /\ pc' = [pc EXCEPT ![p] = "ret"]
           ELSE /\ pc' = [pc EXCEPT ![p] = "dispatch"]
                /\ UNCHANGED result
    /\ UNCHANGED <<user_keys, clients, all_keys, keys_json, lock, req, attempts>>

\* (mutant) the loop reads the pool's rotation list instead of its snapshot
CurrentClientLive(p) ==
    IF Len(attempts[p]) + 1 <= Len(all_keys)
    THEN Client(all_keys[Len(attempts[p]) + 1], clients[all_keys[Len(attempts[p]) + 1]])
    ELSE NoHandle

\* (mutant) the loop calls the first client of the snapshot again and again
CurrentClientFirst(p) == snap[p][1]

\* the keyword arguments of client.chat.completions.create that the model
\* follows, for the request body a
create(a) == [stream |-> a.stream]

\* for client in clients: the client of the iteration in progress
CurrentClient(p) == snap[p][Len(attempts[p]) + 1]

\* (mutant) the error reported is the first one raised
FirstError(tried) == tried[1]

\* last_error = e: after the loop it is the error raised by the client
\* called last; an error is named by the client that raised it
LastError(tried) == tried[Len(tried)]

\* (mutant) a client whose call raised is taken out of the pool
AttemptEvicting(p, succeeded) ==
    /\ pc[p] = "dispatch"
    /\ Len(attempts[p]) < Len(snap[p])
    /\ LET h == CurrentClient(p) IN
       /\ attempts' = [attempts EXCEPT ![p] = Append(@, h)]
       /\ IF succeeded
          THEN /\ result' = [result EXCEPT ![p] = [Ok("response") EXCEPT !.handle = h]]
               /\ pc' = [pc EXCEPT ![p] = "ret"]
               /\ UNCHANGED <<clients, all_keys>>
          ELSE /\ clients' = [clients EXCEPT ![h.api_key] = NoClient]
               /\ all_keys' = ListRemove(all_keys, h.api_key)
               /\ IF Len(attempts[p]) + 1 = Len(snap[p])
                  THEN /\ result' = [result EXCEPT ![p] =
                            [HttpError(502, "All API keys failed. Last error")
                                EXCEPT !.handle = LastError(attempts'[p])]]
                       /\ pc' = [pc EXCEPT ![p] = "ret"]
                  ELSE UNCHANGED <<result, pc>>
    /\ UNCHANGED <<user_keys, keys_json, lock, req, snap>>

\* One iteration of the loop of chat_completions: the upstream call on the
\* current client returns a response (succeeded) or raises.
AttemptWith(p, succeeded) ==
    /\ pc[p] = "dispatch"
    /\ Len(attempts[p]) < Len(snap[p])
    /\ LET h == CurrentClient(p) IN
       /\ attempts' = [attempts EXCEPT ![p] = Append(@, h)]
       /\ IF succeeded
          THEN /\ result' = [result EXCEPT ![p] = [Ok("response") EXCEPT !.handle = h]]
               /\ pc' = [pc EXCEPT ![p] = "ret"]
          ELSE IF Len(attempts[p]) + 1 = Len(snap[p])
          THEN /\ result' = [result EXCEPT ![p] =
                    [HttpError(502, "All API keys failed. Last error")
                        EXCEPT !.handle = LastError(attempts'[p])]]
               /\ pc' = [pc EXCEPT ![p] = "ret"]
          ELSE UNCHANGED <<result, pc>>
    /\ UNCHANGED <<user_keys, clients, all_keys, keys_json, lock, req, snap>>

\* The upstream answers either way.
Attempt(p) == \E succeeded \in BOOLEAN : AttemptWith(p, succeeded)

\* The response is delivered; the handler's locals are gone.
Return(p) ==
    /\ pc[p] = "ret"
    /\ pc' = [pc EXCEPT ![p] = "idle"]
    /\ req' = [req EXCEPT ![p] = NoRequest]
    /\ result' = [result EXCEPT ![p] = NoResult]
    /\ snap' = [snap EXCEPT ![p] = <<>>]
    /\ attempts' = [attempts EXCEPT ![p] = <<>>]
    /\ UNCHANGED <<user_keys, clients, all_keys, keys_json, lock>>

\* ------------------------------------------- endpoints behind UserManager
\* the requests that carry a bearer token, before the token is resolved
GatedRequests(K, B) ==
    {[op |-> "add", user_id |-> NoUserId, api_key |-> k, base_url |-> b] : k \in K, b \in B}
    \cup {[op |-> "remove", user_id |-> NoUserId, api_key |-> k, base_url |-> "-"] : k \in K}
    \cup {[op |-> "list", user_id |-> NoUserId, api_key |-> "-", base_url |-> "-"],
          [op |-> "logout", user_id |-> NoUserId, api_key |-> "-", base_url |-> "-"]}
\* the requests that carry a username and a password
FormRequests ==
    {[op |-> o, user_id |-> NoUserId, api_key |-> "-", base_url |-> "-"] :
        o \in {"register", "login"}}

\* the logins that have arrived and not yet run
LoginsAhead == Cardinality({q \in DOMAIN pc : pc[q] = "auth" /\ req[q].op = "login"})

\* A request arrives at an endpoint that goes to the user manager first. The
\* token it carries is one a login has returned, or one no login returns.
CallAuth(p, K, B) ==
    /\ pc[p] = "idle"
    /\ \/ \E r \in FormRequests, n \in Usernames, w \in Passwords :
            /\ r.op = "login" => issued + LoginsAhead < MaxTokens
            /\ req' = [req EXCEPT ![p] = r]
            /\ args' = [args EXCEPT ![p] = [NoArgs EXCEPT !.username = n, !.password = w]]
       \/ \E r \in GatedRequests(K, B), t \in {NoToken} \cup 1..issued :
            /\ req' = [req EXCEPT ![p] = r]
            /\ args' = [args EXCEPT ![p] = [NoArgs EXCEPT !.token = t]]
    /\ pc' = [pc EXCEPT ![p] = "auth"]
    /\ UNCHANGED <<user_keys, clients, all_keys, keys_json, lock, result, snap, attempts>>
    /\ UNCHANGED <<users, tokens, users_json, issued>>

\* POST /users/register up to its call of pool.ensure_user_init
RegisterUser(p) ==
    /\ pc[p] = "auth" /\ req[p].op = "register"
    /\ \E new_id \in (IF users[args[p].username] # NoUser THEN {NoUserId}
                       ELSE FreshIds(users)) :
        LET r == register(users, users_json, args[p].username, args[p].password, new_id)
        IN  /\ users' = r.users
            /\ users_json' = r.users_json
            /\ req' = [req EXCEPT ![p] = [@ EXCEPT !.op = "init", !.user_id = r.user_id]]
            /\ args' = [args EXCEPT ![p] = [@ EXCEPT !.is_new = r.is_new]]
    /\ pc' = [pc EXCEPT ![p] = "wait"]
    /\ UNCHANGED <<user_keys, clients, all_keys, keys_json, lock, result, snap, attempts>>
    /\ UNCHANGED <<tokens, issued>>

\* POST /users/login
LoginUser(p) ==
    /\ pc[p] = "auth" /\ req[p].op = "login"
    /\ LET r == login(users, tokens, args[p].username, args[p].password, issued + 1) IN
       IF r.ok
       THEN /\ tokens' = r.tokens
            /\ issued' = issued + 1
            /\ result' = [result EXCEPT ![p] =
                    [Ok("login") EXCEPT !.token = r.token, !.user_id = r.user_id]]
       ELSE /\ result' = [result EXCEPT ![p] = HttpError(401, "Invalid credentials")]
            /\ UNCHANGED <<tokens, issued>>
    /\ pc' = [pc EXCEPT ![p] = "ret"]
    /\ UNCHANGED <<user_keys, clients, all_keys, keys_json, lock, req, snap, attempts>>
    /\ UNCHANGED <<users, users_json, args>>

\* POST /users/logout
LogoutUser(p) ==
    /\ pc[p] = "auth" /\ req[p].op = "logout"
    /\ tokens' = logout(tokens, args[p].token)
    /\ result' = [result EXCEPT ![p] = Ok("Logged out successfully")]
    /\ pc' = [pc EXCEPT ![p] = "ret"]
    /\ UNCHANGED <<user_keys, clients, all_keys, keys_json, lock, req, snap, attempts>>
    /\ UNCHANGED <<users, users_json, issued, args>>

\* get_current_user_id, the dependency of POST, GET and DELETE /keys
ResolveUser(p) ==
    /\ pc[p] = "auth" /\ req[p].op \in {"add", "list", "remove"}
    /\ LET user_id == get_user_id_by_token(tokens, args[p].token) IN
       IF user_id = NoUserId
       THEN /\ result' = [result EXCEPT ![p] =
                    HttpError(401, "Invalid authentication credentials")]
            /\ pc' = [pc EXCEPT ![p] = "ret"]
            /\ UNCHANGED req
       ELSE /\ req' = [req EXCEPT ![p] = [@ EXCEPT !.user_id = user_id]]
            /\ pc' = [pc EXCEPT ![p] = "wait"]
            /\ UNCHANGED result
    /\ UNCHANGED <<user_keys, clients, all_keys, keys_json, lock, snap, attempts>>
    /\ UNCHANGED <<users, tokens, users_json, issued, args>>

\* POST /chat/completions has no dependency on get_current_user_id: the
\* request may carry any Authorization header, or none
ChatRequests == {r \in Requests(ConcKeys, ConcUrls) : r.op = "chat"}
ChatCall(p) ==
    /\ Call(p, ChatRequests)
    /\ \E t \in {NoToken} \cup 1..issued, stream \in BOOLEAN :
        args' = [args EXCEPT ![p] = [NoArgs EXCEPT !.token = t, !.stream = stream]]
    /\ UNCHANGED <<users, tokens, users_json, issued>>

\* the part of a step of the pool that concerns the user manager
KeepAuth(p) ==
    /\ args' = [args EXCEPT ![p] = IF pc'[p] = "idle" THEN NoArgs ELSE @]
    /\ UNCHANGED <<users, tokens, users_json, issued>>

\* (mutant) the token table is there again after the restart
RestartUsersWithTokens(P) ==
    /\ users' = load_users(users_json)
    /\ args' = [p \in P |-> NoArgs]
    /\ UNCHANGED <<tokens, users_json, issued>>

\* the module-level user_manager = UserManager() runs load_users; the token
\* table starts empty
RestartUsers(P) ==
    /\ users' = load_users(users_json)
    /\ tokens' = NoTokens
    /\ args' = [p \in P |-> NoArgs]
    /\ UNCHANGED <<users_json, issued>>

\* The server process is stopped and started again: the module-level
\* pool = KeyPool() runs load_keys; requests in flight are lost.
Restart(P) ==
    /\ LET r == load_keys(keys_json) IN
        /\ user_keys' = r.user_keys
        /\ clients' = r.clients
        /\ all_keys' = r.all_keys
    /\ lock' = NoProc
    /\ pc' = [p \in P |-> "idle"]
    /\ req' = [p \in P |-> NoRequest]
    /\ result' = [p \in P |-> NoResult]
    /\ snap' = [p \in P |-> <<>>]
    /\ attempts' = [p \in P |-> <<>>]
    /\ UNCHANGED keys_json

\* ------------------------------------------- client: APIPoolClient
\* Python's None where a string is expected; os.getenv returns it for a
\* variable that is not in the environment
Unset == "None"
ServerUrls == {"http://localhost:8081", "http://example.com:9000"}
\* what a caller may pass as server_url, and what the environment may hold
UrlArgs == {Unset, ""} \cup ServerUrls

\* what the last call of a method of the client came to
NoCall == [method |-> "-", outcome |-> "-", keys |-> <<>>]
\* sdk.call is the method that waits for the server's response, sdk.last the
\* call that ended last and sdk.before the method of the call before it
NoSdk ==
    [state |-> "none", arg |-> Unset, env |-> Unset, server_url |-> Unset, error |-> "-",
     token |-> NoToken, user_id |-> NoUserId, call |-> "none", last |-> NoCall,
     before |-> "-"]

\* (mutant) an unconfigured client silently talks to localhost
APIPoolClient_default(arg, env, token) ==
    LET server_url == IF arg = Unset THEN env ELSE arg IN
    [NoSdk EXCEPT !.state = "ok", !.arg = arg, !.env = env,
        !.server_url = IF server_url = Unset \/ server_url = ""
                       THEN "http://localhost:8081" ELSE server_url,
        !.token = token]

\* APIPoolClient.__init__(server_url=arg, token=token) with
\* API_FARM_SERVER_URL = env
APIPoolClient(arg, env, token) ==
    LET server_url == IF arg = Unset THEN env ELSE arg IN
    IF server_url = Unset \/ server_url = ""
    THEN [NoSdk EXCEPT !.state = "error", !.arg = arg, !.env = env,
            !.error = "ValueError: API_FARM_SERVER_URL"]
    ELSE [NoSdk EXCEPT !.state = "ok", !.arg = arg, !.env = env,
            !.server_url = server_url, !.token = token]

\* a client is constructed
Construct ==
    /\ sdk.state = "none"
    /\ \E arg \in UrlArgs, env \in UrlArgs, token \in {NoToken} \cup 1..issued :
            sdk' = APIPoolClient(arg, env, token)

\* the methods of the client that go to the user manager or to /keys, and
\* the endpoint each of them calls
Methods == {"register", "login", "logout", "list_keys", "add_key", "remove_key"}
OpOf(method) ==
    CASE method = "list_keys" -> "list"
      [] method = "add_key" -> "add"
      [] method = "remove_key" -> "remove"
      [] OTHER -> method

\* `if self.token` in logout, `if not self.token` in list_keys and _get_headers
HasToken(s) == s.token # NoToken

\* a call of a method ends: what it returned or raised
CallEnds(s, method, outcome, keys) ==
    [s EXCEPT !.call = "none",
              !.last = [method |-> method, outcome |-> outcome, keys |-> keys],
              !.before = s.last.method]

\* The calls that end before a request is sent, on a client without a token:
\* logout and list_keys print "Not logged in" and return None, add_key and
\* remove_key raise the RuntimeError of _get_headers.
WithoutToken(method) ==
    CASE method = "logout" -> "returned None"
      [] method = "list_keys" -> "returned None"
      [] method = "add_key" -> "RuntimeError"
      [] method = "remove_key" -> "RuntimeError"

\* the rest of a method once the response resp is there
Response(s, resp) ==
    CASE s.call = "register" ->
            CallEnds(s, "register",
                     IF resp.code = 200 THEN "returned" ELSE "HTTPStatusError", <<>>)
      [] s.call = "login" ->
            IF resp.code = 200
            THEN CallEnds([s EXCEPT !.token = resp.token, !.user_id = resp.user_id],
                          "login", "returned", <<>>)
            ELSE CallEnds(s, "login", "HTTPStatusError", <<>>)
      [] s.call = "logout" ->
            CallEnds([s EXCEPT !.token = NoToken, !.user_id = NoUserId],
                     "logout", "returned None", <<>>)
      [] s.call = "list_keys" ->
            IF resp.code = 200
            THEN CallEnds(s, "list_keys", "returned", resp.keys)
            ELSE CallEnds(s, "list_keys", "HTTPStatusError", <<>>)
      [] s.call \in {"add_key", "remove_key"} ->
            CallEnds(s, s.call,
                     IF resp.code = 200 THEN "returned None" ELSE "HTTPStatusError", <<>>)

\* a method is called on a client that holds no token, and ends at once
SdkOffline(method) ==
    /\ sdk.state = "ok" /\ sdk.call = "none"
    /\ method \in {"logout", "list_keys", "add_key", "remove_key"}
    /\ ~HasToken(sdk)
    /\ sdk' = CallEnds(sdk, method, WithoutToken(method), <<>>)

\* a method is called and sends its request, with the client's token where
\* the endpoint wants one
SdkRequest(p, method, N, K, B) ==
    /\ sdk.state = "ok" /\ sdk.call = "none"
    /\ method \in {"register", "login"} \/ HasToken(sdk)
    /\ CallAuth(p, K, B)
    /\ req'[p].op = OpOf(method)
    /\ method \in {"register", "login"} => args'[p].username \in N
    /\ method \notin {"register", "login"} => args'[p].token = sdk.token
    /\ sdk' = [sdk EXCEPT !.call = method]

\* the response arrives and the method ends
SdkResponse(p) ==
    /\ sdk.call # "none"
    /\ Return(p)
    /\ KeepAuth(p)
    /\ sdk' = Response(sdk, result[p])

\* ------------------------------------- client: batch_chat_completions
\* the largest batch and the largest concurrency argument looked at
MaxBatch == 3
MaxConc == 2

\* results = [None] * len(batch_messages); the response to input i
None == [answer_to |-> "None"]
ResponseTo(i) == [answer_to |-> ToString(i)]
NoneList(n) == [i \in 1..n |-> None]

\* what the caller of the batch gets: nothing yet, the list, or an exception
NoOutcome == [kind |-> "pending", results |-> <<>>, error |-> "-"]
Returned(rs) == [kind |-> "returned", results |-> rs, error |-> "-"]
Raised(i) == [kind |-> "raised", results |-> <<>>, error |-> ToString(i)]

\* no batch call is in progress
NoBatch ==
    [n |-> 0, concurrency |-> 0, sem |-> 0, task |-> <<>>, results |-> <<>>,
     outcome |-> NoOutcome]

\* (mutant) the gate lets every task through
AcquireAlways(sem) == TRUE
\* async with sem: asyncio.Semaphore.acquire goes through while the value is positive
Acquire(sem) == sem > 0

\* (mutant) results.append(resp.json()): the list grows in completion order
StoreAppended(results, idx, resp) ==
    LET Filled(r) == r # None IN
    [i \in 1..Len(results) |->
        IF i = Len(SelectSeq(results, Filled)) + 1 THEN resp ELSE results[i]]
\* results[idx] = resp.json()
Store(results, idx, resp) == [results EXCEPT ![idx] = resp]

\* (mutant) asyncio.gather(*tasks, return_exceptions=True): nothing is raised
gather_return_exceptions(outcome, idx) == outcome
\* await asyncio.gather(*tasks): the first exception of a task is raised in
\* the caller; the other tasks go on
gather(outcome, idx) == IF outcome = NoOutcome THEN Raised(idx) ELSE outcome

\* batch_chat_completions is called: the semaphore, the result list and one
\* task per input are created
BatchCall ==
    /\ sdk.state = "ok"
    /\ batch = NoBatch
    /\ \E n \in 0..MaxBatch, concurrency \in 1..MaxConc :
        batch' = [n |-> n, concurrency |-> concurrency, sem |-> concurrency,
                  task |-> [i \in 1..n |-> "created"],
                  results |-> NoneList(n), outcome |-> NoOutcome]

\* _process_one(idx) enters `async with sem`
Admit(idx) ==
    /\ idx \in 1..Len(batch.task)
    /\ batch.task[idx] = "created"
    /\ Acquire(batch.sem)
    /\ batch' = [batch EXCEPT !.task[idx] = "flying", !.sem = @ - 1]

\* _process_one(idx): the POST returns; raise_for_status passes (ok) and the
\* response is stored, or it raises; either way the semaphore is released
Finish(idx, ok) ==
    /\ idx \in 1..Len(batch.task)
    /\ batch.task[idx] = "flying"
    /\ batch' =
        IF ok
        THEN [batch EXCEPT !.task[idx] = "done", !.sem = @ + 1,
                           !.results = Store(@, idx, ResponseTo(idx))]
        ELSE [batch EXCEPT !.task[idx] = "failed", !.sem = @ + 1,
                           !.outcome = gather(@, idx)]

\* every task has ended and none has raised to the caller: return results
BatchReturn ==
    /\ batch # NoBatch
    /\ batch.outcome = NoOutcome
    /\ \A i \in 1..Len(batch.task) : batch.task[i] \in {"done", "failed"}
    /\ batch' = [batch EXCEPT !.outcome = Returned(batch.results)]

\* the caller has its list or its exception and goes on; tasks that are
\* still running are of no concern to it
BatchForget ==
    /\ batch.outcome # NoOutcome
    /\ batch' = NoBatch

\* ------------------------- client_pool: MultiKeyClientPool, safe_ask_batch
\* the most clients a MultiKeyClientPool is built with
MaxClients == 2

\* rr.n          len(client_pool.clients), 0 while there is no pool
\* rr.cursor     how many clients itertools.cycle has handed out, modulo n
\* rr.sem        the free places of safe_ask_batch's semaphore
\* rr.task[i]    request i of the batch: not there ("none"), waiting at the
\*               semaphore ("created"), inside an upstream call ("calling"),
\*               answered ("returned") or ended by AllKeysFailed ("raised");
\*               tried is the clients _safe_ask_one has called, in order
NoTask == [st |-> "none", tried |-> <<>>]
NoRoundRobin ==
    [n |-> 0, cursor |-> 0, sem |-> 0, task |-> [i \in 1..MaxBatch |-> NoTask]]

\* MultiKeyClientPool.get: next(self._cycle); the clients are numbered 1..n
get(r) == [client |-> r.cursor + 1, cursor |-> (r.cursor + 1) % r.n]

\* MultiKeyClientPool(api_keys) with n keys
MultiKeyClientPool(n) ==
    /\ rr.n = 0
    /\ rr' = [NoRoundRobin EXCEPT !.n = n]

\* safe_ask_batch is called with size requests: the tasks are created
SafeAskBatch(size, concurrency) ==
    /\ rr.n > 0
    /\ \A i \in 1..MaxBatch : rr.task[i].st = "none"
    /\ rr' = [rr EXCEPT !.sem = concurrency,
                        !.task = [i \in 1..MaxBatch |->
                            IF i <= size THEN [st |-> "created", tried |-> <<>>]
                            ELSE NoTask]]

\* _runner passes the semaphore and _safe_ask_one runs up to its first
\* upstream call
Runner(i) ==
    /\ rr.task[i].st = "created"
    /\ rr.sem > 0
    /\ rr' = [rr EXCEPT !.sem = @ - 1,
                        !.cursor = get(rr).cursor,
                        !.task[i] = [st |-> "calling", tried |-> <<get(rr).client>>]]

\* the upstream call of request i returns (ok) or raises: _safe_ask_one
\* returns, goes on to its next upstream call, or raises AllKeysFailed
Answer(i, ok) ==
    /\ rr.task[i].st = "calling"
    /\ IF ok
       THEN rr' = [rr EXCEPT !.sem = @ + 1, !.task[i].st = "returned"]
       ELSE IF Len(rr.task[i].tried) < rr.n
       THEN rr' = [rr EXCEPT !.cursor = get(rr).cursor,
                             !.task[i].tried = Append(@, get(rr).client)]
       ELSE rr' = [rr EXCEPT !.sem = @ + 1, !.task[i].st = "raised"]

\* safe_ask_batch is over: every task has ended
BatchOver ==
    /\ \E i \in 1..MaxBatch : rr.task[i].st # "none"
    /\ \A i \in 1..MaxBatch : rr.task[i].st \in {"none", "returned", "raised"}
    /\ rr' = [rr EXCEPT !.sem = 0, !.task = [i \in 1..MaxBatch |-> NoTask]]

\* ---------------------------------------------------------------- history
\* History variables record what a request saw and did; no action of the
\* model reads them.
Pool ==
    [user_keys |-> user_keys, clients |-> clients, all_keys |-> all_keys,
     keys_json |-> keys_json]
NoPool ==
    [user_keys |-> <<>>, clients |-> EmptyClients, all_keys |-> <<>>, keys_json |-> NoFile]
NoObs == [pre |-> NoPool, post |-> NoPool]

Without(s, x) == LET Keep(y) == y # x IN SelectSeq(s, Keep)

\* obs[p]: the pool when p's pool call began and when it ended
ObservePool(p) ==
    obs' = [obs EXCEPT ![p] =
        IF pc'[p] = "idle" THEN NoObs
        ELSE IF pc[p] = "wait" /\ pc'[p] # "wait" THEN [pre |-> Pool, post |-> Pool']
        ELSE IF pc[p] \in {"locked", "dispatch"} THEN [@ EXCEPT !.post = Pool']
        ELSE @]

\* added[u]: the secrets u owns, in the order of the add calls that made u own them
ObserveAdded(p) ==
    LET u == req[p].user_id
        k == req[p].api_key
    IN  added' =
            IF pc[p] = "wait" /\ req[p].op = "add" /\ pc'[p] = "ret"
            THEN IF ListHas(added[u], k) THEN added ELSE [added EXCEPT ![u] = Append(@, k)]
            ELSE IF pc[p] = "wait" /\ req[p].op = "remove" /\ pc'[p] = "locked"
            THEN [added EXCEPT ![u] = Without(@, k)]
            ELSE added

\* replies[p]: the outcomes of the upstream calls of p's dispatch, in order
NoReplies(P) == [p \in P |-> <<>>]
KeepReplies(p) ==
    replies' = [replies EXCEPT ![p] = IF pc'[p] = "idle" THEN <<>> ELSE @]
ObserveReply(p, succeeded) ==
    replies' = [replies EXCEPT ![p] = Append(@, succeeded)]

WatchPool(p) == ObservePool(p) /\ ObserveAdded(p) /\ UNCHANGED hist
Watch(p) ==
    WatchPool(p) /\ KeepReplies(p) /\ UNCHANGED <<auth_vars, sess, client_vars>>
WatchAttempt(p, succeeded) ==
    WatchPool(p) /\ ObserveReply(p, succeeded) /\ UNCHANGED <<auth_vars, sess, client_vars>>

WatchRestart ==
    /\ obs' = [p \in DOMAIN obs |-> NoObs]
    /\ added' = [u \in Users |-> get_user_keys(user_keys', u)]
    /\ replies' = NoReplies(DOMAIN pc)
    /\ UNCHANGED <<hist, auth_vars, sess, client_vars>>

\* hist, for the requests that run concurrently:
\*   addedDone    the secrets with an add that has returned and whose handle has
\*                been in the pool ever since that add's pool call
\*   removedDone  the secrets with a removal that took the handle out of the pool
\*                and has returned, the handle not created again since
\*   live[p]      p's add (or global removal) has run and still stands
\*   incl[p]      addedDone when p's snapshot call was invoked, less the secrets
\*                whose handle was taken out of the pool while it waited
\*   excl[p]      removedDone when p's snapshot call returned
\*   given[p]     the snapshot handed to p's dispatch
\*   stale[p]     p's dispatch has called a handle that was no longer in the pool
NoHist(P) ==
    [addedDone |-> {}, removedDone |-> {},
     live |-> [p \in P |-> FALSE],
     incl |-> [p \in P |-> {}],
     excl |-> [p \in P |-> {}],
     given |-> [p \in P |-> <<>>],
     stale |-> [p \in P |-> FALSE]]

Trace(p) ==
    LET k == req[p].api_key
        op == req[p].op
        called == pc[p] = "idle" /\ pc'[p] = "wait"
        ran == pc[p] \in {"wait", "locked"} /\ pc'[p] \in {"ret", "dispatch"}
        returned == pc[p] = "ret" /\ pc'[p] = "idle"
        \* the pool call that ran was an add of k: k's handle is to be in the pool
        addRan == ran /\ op = "add"
        \* the pool call that ran was the removal of k's last edge: it reports
        \* that k's handle is out of the pool
        removalRan == ran /\ op = "remove" /\ result'[p].detail = "Key removed successfully"
        tried == Len(attempts'[p]) > Len(attempts[p])
    IN  /\ hist' =
            [addedDone |->
                IF returned /\ op = "add" /\ hist.live[p]
                THEN hist.addedDone \cup {k}
                ELSE IF removalRan THEN hist.addedDone \ {k}
                ELSE hist.addedDone,
             removedDone |->
                IF returned /\ op = "remove" /\ hist.live[p]
                THEN hist.removedDone \cup {k}
                ELSE IF addRan THEN hist.removedDone \ {k}
                ELSE hist.removedDone,
             live |-> [q \in DOMAIN pc |->
                IF q = p
                THEN addRan \/ removalRan
                ELSE /\ hist.live[q]
                     /\ ~(removalRan /\ req[q].op = "add" /\ req[q].api_key = k)
                     /\ ~(addRan /\ req[q].op = "remove" /\ req[q].api_key = k)],
             incl |-> [q \in DOMAIN pc |->
                IF q = p /\ called /\ req'[p].op = "chat" THEN hist.addedDone
                ELSE IF q = p /\ returned THEN {}
                ELSE IF pc[q] = "wait" /\ removalRan THEN hist.incl[q] \ {k}
                ELSE hist.incl[q]],
             excl |-> [q \in DOMAIN pc |->
                IF q = p /\ ran /\ op = "chat" THEN hist.removedDone
                ELSE IF q = p /\ returned THEN {}
                ELSE hist.excl[q]],
             given |-> [q \in DOMAIN pc |->
                IF q = p /\ ran /\ op = "chat" THEN snap'[p]
                ELSE IF q = p /\ returned THEN <<>>
                ELSE hist.given[q]],
             stale |-> [q \in DOMAIN pc |->
                IF q = p /\ tried
                THEN hist.stale[q] \/ ~ListHas(all_keys, attempts'[p][Len(attempts'[p])].api_key)
                ELSE IF q = p /\ returned THEN FALSE
                ELSE hist.stale[q]]]
        /\ UNCHANGED <<obs, added, replies, auth_vars, sess, client_vars>>

TraceRestart ==
    /\ hist' = NoHist(DOMAIN pc)
    /\ UNCHANGED <<obs, added, replies, auth_vars, sess, client_vars>>

\* sess, for the requests that go through the user manager:
\*   revoked   the tokens a logout has been answered for
\*   bound     token -> the user_id of the user whose login returned it
\*   first     username -> the password and user_id of its first registration
\*   pre[p]    the user table, the token table, users.json and the pool when
\*             p's request arrived
\*   kept      the usernames that were registered when the server last stopped
\*   old       the tokens that logins returned before the server last stopped
\*   gone      the tokens a logout has been answered for and has returned
\*   bypass    the requests whose pool call changed the pool or keys.json
\*             although it began after the logout of their token had returned
State ==
    [users |-> users, tokens |-> tokens, users_json |-> users_json, pool |-> Pool]
NoState ==
    [users |-> EmptyUsers, tokens |-> NoTokens, users_json |-> NoUsersFile, pool |-> NoPool]
NoSess(P) ==
    [revoked |-> {}, bound |-> NoTokens, first |-> EmptyUsers,
     pre |-> [p \in P |-> NoState], kept |-> {}, old |-> {}, gone |-> {}, bypass |-> {}]

AuditSess(p) ==
    LET arrived == pc[p] = "idle" /\ pc'[p] # "idle"
        returned == pc'[p] = "idle"
        ran == pc[p] = "auth" /\ pc'[p] # "auth"
        n == args[p].username
    IN  /\ sess' =
            [revoked |->
                IF ran /\ req[p].op = "logout" /\ args[p].token # NoToken
                THEN sess.revoked \cup {args[p].token}
                ELSE sess.revoked,
             bound |->
                IF ran /\ req[p].op = "login" /\ result'[p].code = 200
                THEN (result'[p].token :> users[n].user_id) @@ sess.bound
                ELSE sess.bound,
             first |->
                IF ran /\ req[p].op = "register" /\ sess.first[n] = NoUser
                THEN [sess.first EXCEPT ![n] =
                        [password |-> args[p].password, user_id |-> req'[p].user_id]]
                ELSE sess.first,
             pre |-> [q \in DOMAIN pc |->
                IF q = p /\ arrived THEN State
                ELSE IF q = p /\ returned THEN NoState
                ELSE sess.pre[q]],
             kept |-> sess.kept,
             old |-> sess.old,
             gone |->
                IF returned /\ req[p].op = "logout" /\ args[p].token # NoToken
                THEN sess.gone \cup {args[p].token}
                ELSE sess.gone,
             bypass |->
                IF /\ pc[p] = "wait" /\ pc'[p] # "wait"
                   /\ req[p].op \in {"add", "remove"}
                   /\ args[p].token \in sess.gone
                   /\ <<user_keys, clients, all_keys, keys_json>>'
                        # <<user_keys, clients, all_keys, keys_json>>
                THEN sess.bypass \cup {p}
                ELSE IF returned THEN sess.bypass \ {p}
                ELSE sess.bypass]

AuditRestart ==
    /\ sess' = [sess EXCEPT !.pre = [q \in DOMAIN pc |-> NoState],
                            !.kept = {n \in Usernames : sess.first[n] # NoUser},
                            !.old = DOMAIN sess.bound]
    /\ replies' = NoReplies(DOMAIN pc)
    /\ UNCHANGED <<obs, added, hist, client_vars>>

Audit(p) ==
    AuditSess(p) /\ KeepReplies(p) /\ UNCHANGED <<obs, added, hist, client_vars>>
AuditAttempt(p, succeeded) ==
    AuditSess(p) /\ ObserveReply(p, succeeded)
        /\ UNCHANGED <<obs, added, hist, client_vars>>

\* ---------------------------------------------------------- specifications
InitHistory(P) ==
    /\ obs = [p \in P |-> NoObs]
    /\ added = [u \in Users |-> <<>>]
    /\ hist = NoHist(P)
    /\ replies = NoReplies(P)
    /\ sess = NoSess(P)
    /\ batch = NoBatch
    /\ blog = <<>>
    /\ sdk = NoSdk
    /\ rr = NoRoundRobin

\* One request at a time, over every user, credential and endpoint.
SeqRequests == Requests(Keys, Urls) \cup UserRequests
Init == InitFor(SeqProcs) /\ InitAuth(SeqProcs) /\ InitHistory(SeqProcs)
Next ==
    \/ \E p \in SeqProcs : Call(p, SeqRequests) /\ Watch(p)
    \/ \E p \in SeqProcs : EnsureUserInit(p) /\ Watch(p)
    \/ \E p \in SeqProcs : AddKey(p) /\ Watch(p)
    \/ \E p \in SeqProcs : RemoveKeyEnter(p) /\ Watch(p)
    \/ \E p \in SeqProcs : RemoveKeyCheck(p) /\ Watch(p)
    \/ \E p \in SeqProcs : ListKeys(p) /\ Watch(p)
    \/ \E p \in SeqProcs : Snapshot(p) /\ Watch(p)
    \/ \E p \in SeqProcs : \E succeeded \in BOOLEAN :
            AttemptWith(p, succeeded) /\ WatchAttempt(p, succeeded)
    \/ \E p \in SeqProcs : Return(p) /\ Watch(p)
    \/ Restart(SeqProcs) /\ WatchRestart
Spec == Init /\ [][Next]_vars

\* NumProcs requests at a time: adds and removals of one credential by every
\* user, and chat requests.
ConcRequests == Requests(ConcKeys, ConcUrls)
InitConc == InitFor(Procs) /\ InitAuth(Procs) /\ InitHistory(Procs)
NextConc ==
    \/ \E p \in Procs : Call(p, ConcRequests) /\ Trace(p)
    \/ \E p \in Procs : AddKey(p) /\ Trace(p)
    \/ \E p \in Procs : RemoveKeyEnter(p) /\ Trace(p)
    \/ \E p \in Procs : RemoveKeyCheck(p) /\ Trace(p)
    \/ \E p \in Procs : Snapshot(p) /\ Trace(p)
    \/ \E p \in Procs : Attempt(p) /\ Trace(p)
    \/ \E p \in Procs : Return(p) /\ Trace(p)
    \/ Restart(Procs) /\ TraceRestart
SpecConc == InitConc /\ [][NextConc]_vars

\* Two requests at a time: chat requests, and one user's adds and removals of
\* every credential.
SnapRequests == {r \in Requests(Keys, ConcUrls) : r.op = "chat" \/ r.user_id \in SnapUsers}
InitSnap == InitFor(SnapProcs) /\ InitAuth(SnapProcs) /\ InitHistory(SnapProcs)
NextSnap ==
    \/ \E p \in SnapProcs : Call(p, SnapRequests) /\ Trace(p)
    \/ \E p \in SnapProcs : AddKey(p) /\ Trace(p)
    \/ \E p \in SnapProcs : RemoveKeyEnter(p) /\ Trace(p)
    \/ \E p \in SnapProcs : RemoveKeyCheck(p) /\ Trace(p)
    \/ \E p \in SnapProcs : Snapshot(p) /\ Trace(p)
    \/ \E p \in SnapProcs : Attempt(p) /\ Trace(p)
    \/ \E p \in SnapProcs : Return(p) /\ Trace(p)
    \/ Restart(SnapProcs) /\ TraceRestart
SpecSnap == InitSnap /\ [][NextSnap]_vars

\* One request at a time through the user manager of a server that keeps
\* running: registrations, logins, logouts, the token-gated calls on one
\* credential, and chat requests.
AuthProcs == {1}
InitAuthSpec == InitFor(AuthProcs) /\ InitAuth(AuthProcs) /\ InitHistory(AuthProcs)
NextAuth ==
    \/ \E p \in AuthProcs : CallAuth(p, ConcKeys, ConcUrls) /\ Audit(p)
    \/ \E p \in AuthProcs : RegisterUser(p) /\ Audit(p)
    \/ \E p \in AuthProcs : LoginUser(p) /\ Audit(p)
    \/ \E p \in AuthProcs : LogoutUser(p) /\ Audit(p)
    \/ \E p \in AuthProcs : ResolveUser(p) /\ Audit(p)
    \/ \E p \in AuthProcs : EnsureUserInit(p) /\ KeepAuth(p) /\ Audit(p)
    \/ \E p \in AuthProcs : AddKey(p) /\ KeepAuth(p) /\ Audit(p)
    \/ \E p \in AuthProcs : RemoveKeyEnter(p) /\ KeepAuth(p) /\ Audit(p)
    \/ \E p \in AuthProcs : RemoveKeyCheck(p) /\ KeepAuth(p) /\ Audit(p)
    \/ \E p \in AuthProcs : ListKeys(p) /\ KeepAuth(p) /\ Audit(p)
    \/ \E p \in AuthProcs : ChatCall(p) /\ Audit(p)
    \/ \E p \in AuthProcs : Snapshot(p) /\ KeepAuth(p) /\ Audit(p)
    \/ \E p \in AuthProcs : \E succeeded \in BOOLEAN :
            AttemptWith(p, succeeded) /\ KeepAuth(p) /\ AuditAttempt(p, succeeded)
    \/ \E p \in AuthProcs : Return(p) /\ KeepAuth(p) /\ Audit(p)
SpecAuth == InitAuthSpec /\ [][NextAuth]_vars

\* One request at a time through the user manager of a server that is
\* stopped and started again: registrations, logins, logouts and listings.
InitUsers == InitAuthSpec
NextUsers ==
    \/ \E p \in AuthProcs : CallAuth(p, {}, {}) /\ Audit(p)
    \/ \E p \in AuthProcs : RegisterUser(p) /\ Audit(p)
    \/ \E p \in AuthProcs : LoginUser(p) /\ Audit(p)
    \/ \E p \in AuthProcs : LogoutUser(p) /\ Audit(p)
    \/ \E p \in AuthProcs : ResolveUser(p) /\ Audit(p)
    \/ \E p \in AuthProcs : EnsureUserInit(p) /\ KeepAuth(p) /\ Audit(p)
    \/ \E p \in AuthProcs : ListKeys(p) /\ KeepAuth(p) /\ Audit(p)
    \/ \E p \in AuthProcs : Return(p) /\ KeepAuth(p) /\ Audit(p)
    \/ Restart(AuthProcs) /\ RestartUsers(AuthProcs) /\ AuditRestart
SpecUsers == InitUsers /\ [][NextUsers]_vars

\* The server is started on files it did not necessarily write: keys.json
\* and users.json are missing, unreadable as JSON, or JSON whose value for a
\* user may not be a list.
DiskLists ==
    {<<>>, NotAList} \cup {<<k>> : k \in Keys}
    \cup {<<kk[1], kk[2]>> : kk \in Keys \X Keys}
DiskEntries == {[uid |-> u, keys |-> ks] : u \in Users, ks \in DiskLists}
DiskDicts ==
    {<<>>} \cup {<<e>> : e \in DiskEntries}
    \cup {<<ee[1], ee[2]>> :
            ee \in {x \in DiskEntries \X DiskEntries : x[1].uid # x[2].uid}}
KeyFiles == {NoFile, NotJson} \cup {JsonDump(d) : d \in DiskDicts}
UserFiles ==
    {NoUsersFile, NotJsonUsers, save_users(EmptyUsers)}
    \cup {save_users([EmptyUsers EXCEPT ![n] = [password |-> w, user_id |-> u]]) :
            n \in Usernames, w \in Passwords, u \in Users}
InitDisk ==
    /\ keys_json \in KeyFiles
    /\ users_json \in UserFiles
    /\ user_keys = <<>>
    /\ clients = EmptyClients
    /\ all_keys = <<>>
    /\ lock = NoProc
    /\ pc = [p \in SeqProcs |-> "down"]
    /\ req = [p \in SeqProcs |-> NoRequest]
    /\ result = [p \in SeqProcs |-> NoResult]
    /\ snap = [p \in SeqProcs |-> <<>>]
    /\ attempts = [p \in SeqProcs |-> <<>>]
    /\ users = EmptyUsers
    /\ tokens = NoTokens
    /\ issued = 0
    /\ args = [p \in SeqProcs |-> NoArgs]
    /\ InitHistory(SeqProcs)
\* the process starts: pool = KeyPool() and user_manager = UserManager()
Startup(P) ==
    /\ \A p \in P : pc[p] = "down"
    /\ Restart(P)
    /\ RestartUsers(P)
NextDisk ==
    Startup(SeqProcs) /\ UNCHANGED <<obs, added, hist, replies, sess, client_vars>>
SpecDisk == InitDisk /\ [][NextDisk]_vars

\* the object, or the exception, is dropped
Discard ==
    /\ sdk.state # "none"
    /\ sdk.call = "none"
    /\ batch = NoBatch
    /\ sdk' = NoSdk

\* A client is constructed and runs batches against a server whose answers
\* are good or bad.
\* blog: the indices of the tasks that have ended, in the order they ended
InitBatch == InitFor(SeqProcs) /\ InitAuth(SeqProcs) /\ InitHistory(SeqProcs)
ServerIdle == UNCHANGED <<model_vars, auth_vars, obs, added, hist, replies, sess, rr>>
NextBatch ==
    \/ Construct /\ UNCHANGED <<batch, blog>> /\ ServerIdle
    \/ Discard /\ UNCHANGED <<batch, blog>> /\ ServerIdle
    \/ BatchCall /\ blog' = <<>> /\ UNCHANGED sdk /\ ServerIdle
    \/ \E idx \in 1..MaxBatch : Admit(idx) /\ UNCHANGED <<blog, sdk>> /\ ServerIdle
    \/ \E idx \in 1..MaxBatch, ok \in BOOLEAN :
            Finish(idx, ok) /\ blog' = Append(blog, idx) /\ UNCHANGED sdk /\ ServerIdle
    \/ BatchReturn /\ UNCHANGED <<blog, sdk>> /\ ServerIdle
    \/ BatchForget /\ blog' = <<>> /\ UNCHANGED sdk /\ ServerIdle
SpecBatch == InitBatch /\ [][NextBatch]_vars

\* One client goes through its methods against a server that keeps running;
\* it is constructed with an address, and it registers and logs in as alice.
Backstage == UNCHANGED <<obs, added, hist, replies, sess, batch, blog, rr>>
ClientIdle ==
    UNCHANGED <<model_vars, auth_vars, obs, added, hist, replies, sess, batch, blog, rr>>
InitSdk == InitAuthSpec
NextSdk ==
    \/ Construct /\ sdk'.arg = "http://localhost:8081" /\ sdk'.env = Unset /\ ClientIdle
    \/ Discard /\ ClientIdle
    \/ \E method \in Methods : SdkOffline(method) /\ ClientIdle
    \/ \E p \in AuthProcs, method \in Methods :
            SdkRequest(p, method, {"alice"}, ConcKeys, ConcUrls) /\ Backstage
    \/ \E p \in AuthProcs : RegisterUser(p) /\ Backstage /\ UNCHANGED sdk
    \/ \E p \in AuthProcs : LoginUser(p) /\ Backstage /\ UNCHANGED sdk
    \/ \E p \in AuthProcs : LogoutUser(p) /\ Backstage /\ UNCHANGED sdk
    \/ \E p \in AuthProcs : ResolveUser(p) /\ Backstage /\ UNCHANGED sdk
    \/ \E p \in AuthProcs : EnsureUserInit(p) /\ KeepAuth(p) /\ Backstage /\ UNCHANGED sdk
    \/ \E p \in AuthProcs : AddKey(p) /\ KeepAuth(p) /\ Backstage /\ UNCHANGED sdk
    \/ \E p \in AuthProcs : RemoveKeyEnter(p) /\ KeepAuth(p) /\ Backstage /\ UNCHANGED sdk
    \/ \E p \in AuthProcs : RemoveKeyCheck(p) /\ KeepAuth(p) /\ Backstage /\ UNCHANGED sdk
    \/ \E p \in AuthProcs : ListKeys(p) /\ KeepAuth(p) /\ Backstage /\ UNCHANGED sdk
    \/ \E p \in AuthProcs : SdkResponse(p) /\ Backstage
SpecSdk == InitSdk /\ [][NextSdk]_vars

\* Two requests at a time on a credential that both users own when the
\* server starts: each request is a removal of the credential by one of them.
RaceProcs == {1, 2}
RaceRequests == {r \in Requests(ConcKeys, ConcUrls) : r.op = "remove"}
SharedFile ==
    JsonDump(<<[uid |-> "u1", keys |-> <<"k1">>], [uid |-> "u2", keys |-> <<"k1">>]>>)
InitRace ==
    /\ keys_json = SharedFile
    /\ user_keys = load_keys(SharedFile).user_keys
    /\ clients = load_keys(SharedFile).clients
    /\ all_keys = load_keys(SharedFile).all_keys
    /\ lock = NoProc
    /\ pc = [p \in RaceProcs |-> "idle"]
    /\ req = [p \in RaceProcs |-> NoRequest]
    /\ result = [p \in RaceProcs |-> NoResult]
    /\ snap = [p \in RaceProcs |-> <<>>]
    /\ attempts = [p \in RaceProcs |-> <<>>]
    /\ InitAuth(RaceProcs)
    /\ InitHistory(RaceProcs)
Unobserved == UNCHANGED <<auth_vars, obs, added, hist, replies, sess, client_vars>>
NextRace ==
    \/ \E p \in RaceProcs : Call(p, RaceRequests) /\ Unobserved
    \/ \E p \in RaceProcs : RemoveKeyEnter(p) /\ Unobserved
    \/ \E p \in RaceProcs : RemoveKeyCheck(p) /\ Unobserved
    \/ \E p \in RaceProcs : Return(p) /\ Unobserved
SpecRace == InitRace /\ [][NextRace]_vars

\* Two requests at a time on a server that keeps running: chat requests and
\* every user's pool calls on one credential. asyncio.Lock wakes its waiters in the order they
\* arrived, so a pool call that waits for the lock gets it (SF); a handler
\* that can go on without waiting does (WF). Nothing is assumed about the
\* upstream: a dispatch may wait for an answer for ever.
LiveProcs == {1, 2}
LiveRequests == Requests(ConcKeys, ConcUrls) \cup UserRequests
\* chat requests and one user's pool calls on every credential
UpstreamRequests ==
    {r \in Requests(Keys, ConcUrls) \cup UserRequests :
        r.op = "chat" \/ r.user_id \in SnapUsers}
InitLive == InitFor(LiveProcs) /\ InitAuth(LiveProcs) /\ InitHistory(LiveProcs)
NextLiveOn(R) ==
    \/ \E p \in LiveProcs : Call(p, R) /\ Unobserved
    \/ \E p \in LiveProcs : EnsureUserInit(p) /\ Unobserved
    \/ \E p \in LiveProcs : AddKey(p) /\ Unobserved
    \/ \E p \in LiveProcs : RemoveKeyEnter(p) /\ Unobserved
    \/ \E p \in LiveProcs : RemoveKeyCheck(p) /\ Unobserved
    \/ \E p \in LiveProcs : ListKeys(p) /\ Unobserved
    \/ \E p \in LiveProcs : Snapshot(p) /\ Unobserved
    \/ \E p \in LiveProcs : Attempt(p) /\ Unobserved
    \/ \E p \in LiveProcs : Return(p) /\ Unobserved
\* p's request takes the lock; p's handler goes on without waiting
TakesLock(p) ==
    (EnsureUserInit(p) \/ AddKey(p) \/ RemoveKeyEnter(p) \/ ListKeys(p) \/ Snapshot(p))
        /\ Unobserved
GoesOn(p) == (RemoveKeyCheck(p) \/ Return(p)) /\ Unobserved
FairPool == \A p \in LiveProcs : SF_vars(TakesLock(p)) /\ WF_vars(GoesOn(p))
NextLive == NextLiveOn(LiveRequests)
SpecLive == InitLive /\ [][NextLive]_vars /\ FairPool
\* Two requests at a time, chat requests and one user's pool calls on every
\* credential, with an upstream whose every call returns, raises or
\* times out.
FairUpstream == \A p \in LiveProcs : WF_vars(Attempt(p) /\ Unobserved)
NextUpstream == NextLiveOn(UpstreamRequests)
SpecUpstream == InitLive /\ [][NextUpstream]_vars /\ FairPool /\ FairUpstream

\* A MultiKeyClientPool runs batches against an upstream whose answers are
\* good or bad.
InitCycle == InitFor(SeqProcs) /\ InitAuth(SeqProcs) /\ InitHistory(SeqProcs)
OnlyPool == UNCHANGED <<model_vars, auth_vars, obs, added, hist, replies, sess, batch, blog, sdk>>
NextCycle ==
    \/ \E n \in 1..MaxClients : MultiKeyClientPool(n) /\ OnlyPool
    \/ \E size \in 1..MaxBatch, concurrency \in 1..MaxConc :
            SafeAskBatch(size, concurrency) /\ OnlyPool
    \/ \E i \in 1..MaxBatch : Runner(i) /\ OnlyPool
    \/ \E i \in 1..MaxBatch, ok \in BOOLEAN : Answer(i, ok) /\ OnlyPool
    \/ BatchOver /\ OnlyPool
SpecCycle == InitCycle /\ [][NextCycle]_vars

\* Two requests at a time through the user manager of a server that starts
\* with alice registered: logins, logouts and the token-gated calls on one
\* credential.
GateProcs == {1, 2}
AliceFile == save_users([EmptyUsers EXCEPT !["alice"] = [password |-> "pw1", user_id |-> "u1"]])
InitGate ==
    /\ InitFor(GateProcs)
    /\ users_json = AliceFile
    /\ users = load_users(AliceFile)
    /\ tokens = NoTokens
    /\ issued = 0
    /\ args = [p \in GateProcs |-> NoArgs]
    /\ InitHistory(GateProcs)
NextGate ==
    \/ \E p \in GateProcs :
            /\ CallAuth(p, ConcKeys, ConcUrls)
            /\ req'[p].op \in {"login", "logout", "add", "remove"}
            /\ req'[p].op = "login" => args'[p].username = "alice" /\ args'[p].password = "pw1"
            /\ Audit(p)
    \/ \E p \in GateProcs : LoginUser(p) /\ Audit(p)
    \/ \E p \in GateProcs : LogoutUser(p) /\ Audit(p)
    \/ \E p \in GateProcs : ResolveUser(p) /\ Audit(p)
    \/ \E p \in GateProcs : AddKey(p) /\ KeepAuth(p) /\ Audit(p)
    \/ \E p \in GateProcs : RemoveKeyEnter(p) /\ KeepAuth(p) /\ Audit(p)
    \/ \E p \in GateProcs : RemoveKeyCheck(p) /\ KeepAuth(p) /\ Audit(p)
    \/ \E p \in GateProcs : Return(p) /\ KeepAuth(p) /\ Audit(p)
SpecGate == InitGate /\ [][NextGate]_vars

\* Two registrations at a time on a server that starts without users.
RegProcs == {1, 2}
InitReg == InitFor(RegProcs) /\ InitAuth(RegProcs) /\ InitHistory(RegProcs)
NextReg ==
    \/ \E p \in RegProcs : CallAuth(p, {}, {}) /\ req'[p].op = "register" /\ Audit(p)
    \/ \E p \in RegProcs : RegisterUser(p) /\ Audit(p)
    \/ \E p \in RegProcs : EnsureUserInit(p) /\ KeepAuth(p) /\ Audit(p)
    \/ \E p \in RegProcs : Return(p) /\ KeepAuth(p) /\ Audit(p)
SpecReg == InitReg /\ [][NextReg]_vars

\* The server is started on a keys.json it did not necessarily write and then
\* takes adds, removals and chat requests one at a time.
BootRequests == Requests(Keys, ConcUrls)
InitBoot ==
    /\ keys_json \in KeyFiles
    /\ users_json = NoUsersFile
    /\ user_keys = <<>>
    /\ clients = EmptyClients
    /\ all_keys = <<>>
    /\ lock = NoProc
    /\ pc = [p \in SeqProcs |-> "down"]
    /\ req = [p \in SeqProcs |-> NoRequest]
    /\ result = [p \in SeqProcs |-> NoResult]
    /\ snap = [p \in SeqProcs |-> <<>>]
    /\ attempts = [p \in SeqProcs |-> <<>>]
    /\ users = EmptyUsers
    /\ tokens = NoTokens
    /\ issued = 0
    /\ args = [p \in SeqProcs |-> NoArgs]
    /\ InitHistory(SeqProcs)
NextBoot ==
    \/ Startup(SeqProcs) /\ UNCHANGED <<obs, added, hist, replies, sess, client_vars>>
    \/ \E p \in SeqProcs : Call(p, BootRequests) /\ Unobserved
    \/ \E p \in SeqProcs : AddKey(p) /\ Unobserved
    \/ \E p \in SeqProcs : RemoveKeyEnter(p) /\ Unobserved
    \/ \E p \in SeqProcs : RemoveKeyCheck(p) /\ Unobserved
    \/ \E p \in SeqProcs : Snapshot(p) /\ Unobserved
    \/ \E p \in SeqProcs : Attempt(p) /\ Unobserved
    \/ \E p \in SeqProcs : Return(p) /\ Unobserved
SpecBoot == InitBoot /\ [][NextBoot]_vars

\* ------------------------------------------------------------------ claims
Owners(uk, k) == {u \in Users : ListHas(get_user_keys(uk, u), k)}
Active(cl) == {k \in Keys : cl[k] # NoClient}
Count(s, x) == Cardinality({i \in 1..Len(s) : s[i] = x})
Finished(p, o) == pc[p] = "ret" /\ req[p].op = o
\* what p's pool call found: the caller owned the secret, the secret was known
OwnedBefore(p) == req[p].user_id \in Owners(obs[p].pre.user_keys, req[p].api_key)
KnownBefore(p) == req[p].api_key \in Active(obs[p].pre.clients)
SamePool(a, b) ==
    /\ a.user_keys = b.user_keys
    /\ a.clients = b.clients
    /\ a.all_keys = b.all_keys

\* C1: whenever no pool call is inside its critical section, a credential has
\* an upstream client, and a place in the rotation list, if and only if at
\* least one user owns it.
C1_ActiveIffOwned ==
    lock = NoProc =>
        \A k \in Keys :
            /\ k \in Active(clients) <=> Owners(user_keys, k) # {}
            /\ ListHas(all_keys, k) <=> Owners(user_keys, k) # {}

\* C1 witness: of two owners of a credential one has removed it and the other
\* still owns it, the handle being still active.
C1_Witness ==
    \E p \in Procs :
        /\ Finished(p, "remove")
        /\ lock = NoProc
        /\ req[p].user_id \notin Owners(user_keys, req[p].api_key)
        /\ Owners(user_keys, req[p].api_key) # {}
        /\ req[p].api_key \in Active(clients)

\* C2: a removal by a user who does not own the secret changes neither the
\* ownership relation nor the handles nor keys.json, and is answered with a
\* not-found error.
C2_NonOwnerRemoveIsNotFound ==
    \A p \in SeqProcs :
        Finished(p, "remove") /\ ~OwnedBefore(p) =>
            /\ obs[p].post = obs[p].pre
            /\ result[p].code = 404

\* C3: a removal rejected because another user still owns the credential
\* leaves the ownership relation, the handles and keys.json as they were.
C3_RejectedRemoveChangesNothing ==
    \A p \in SeqProcs :
        Finished(p, "remove") /\ OwnedBefore(p) /\ result[p].code = 404 =>
            obs[p].post = obs[p].pre

\* C4: a removal by an owner removes the caller's edge and returns a status,
\* never an error; the status tells "now globally absent" from "still owned
\* by others".
C4_OwnerRemoveReturnsStatus ==
    \A p \in SeqProcs :
        Finished(p, "remove") /\ OwnedBefore(p) =>
            /\ req[p].user_id \notin Owners(obs[p].post.user_keys, req[p].api_key)
            /\ result[p].code = 200
            /\ result[p].detail = "Key removed successfully"
                    <=> Owners(obs[p].post.user_keys, req[p].api_key) = {}

\* C5: an add is answered "ok" and leaves one edge from the caller, one client
\* and one place in the rotation list for the secret; an add by a user who
\* owns the secret already changes nothing, and so does adding once more.
C5_AddIdempotent ==
    \A p \in SeqProcs :
        Finished(p, "add") =>
            LET u == req[p].user_id
                k == req[p].api_key
                post == obs[p].post
            IN  /\ result[p].code = 200
                /\ Count(get_user_keys(post.user_keys, u), k) = 1
                /\ Count(post.all_keys, k) = 1
                /\ k \in Active(post.clients)
                /\ OwnedBefore(p) => SamePool(post, obs[p].pre)
                /\ \A b \in Urls :
                    SamePool(add_key(post.user_keys, post.clients, post.all_keys,
                                     post.keys_json, u, k, b), post)

\* C5 witness: an add by a user who owned the secret already has run.
C5_Witness == \E p \in SeqProcs : Finished(p, "add") /\ OwnedBefore(p)

\* C6: an add of a secret that is known already leaves every client, the
\* rotation list and the other users' lists as they were, whatever endpoint
\* it names, and appends the secret to the caller's list if it was not there.
C6_KnownAddOnlyAddsEdge ==
    \A p \in SeqProcs :
        Finished(p, "add") /\ KnownBefore(p) =>
            LET u == req[p].user_id
                k == req[p].api_key
                pre == obs[p].pre
                post == obs[p].post
                was == get_user_keys(pre.user_keys, u)
            IN  /\ post.clients = pre.clients
                /\ post.all_keys = pre.all_keys
                /\ \A v \in Users \ {u} :
                    get_user_keys(post.user_keys, v) = get_user_keys(pre.user_keys, v)
                /\ get_user_keys(post.user_keys, u) =
                        IF ListHas(was, k) THEN was ELSE Append(was, k)

\* C6 witness: a user has added, under another endpoint, a secret that another
\* user had added before.
C6_Witness ==
    \E p \in SeqProcs :
        /\ Finished(p, "add") /\ KnownBefore(p) /\ ~OwnedBefore(p)
        /\ req[p].base_url # obs[p].pre.clients[req[p].api_key]

\* C7: the list a user is given holds the secrets the user owns in the order
\* the user added them, and is empty, not an error, for a user without keys
\* or unknown to the pool.
C7_ListInAddOrder ==
    /\ \A u \in Users : get_user_keys(user_keys, u) = added[u]
    /\ \A p \in SeqProcs :
        Finished(p, "list") =>
            /\ result[p].code = 200
            /\ result[p].keys = added[req[p].user_id]

\* C7 witness: a user is given two secrets, the one added first in front, and
\* the other user, unknown to the pool, would be given none.
C7_Witness ==
    \E p \in SeqProcs :
        /\ Finished(p, "list")
        /\ result[p].keys = <<"k2", "k1">>
        /\ \E v \in Users : ~DictHas(user_keys, v)

\* C8: a snapshot holds every active handle once and nothing else, whatever
\* order the shuffle picked, and is empty when no handle is active.
C8_SnapshotIsPermutation ==
    \A p \in SeqProcs :
        req[p].op = "chat" /\ pc[p] \in {"dispatch", "ret"} =>
            LET active == {Client(k, obs[p].pre.clients[k]) : k \in Active(obs[p].pre.clients)}
            IN  /\ NoDup(snap[p])
                /\ SeqSet(snap[p]) = active
                /\ Len(snap[p]) = Cardinality(active)

\* C8 witness: a snapshot of two handles in the order opposite to the rotation
\* list's.
C8_Witness ==
    \E p \in SeqProcs :
        /\ pc[p] = "dispatch"
        /\ Len(snap[p]) = 2 /\ Len(all_keys) = 2
        /\ snap[p][1].api_key = all_keys[2]

\* C9: a dispatch in progress keeps the snapshot it was given, and calls the
\* handles of that snapshot in its order, whatever adds and removals run
\* meanwhile.
C9_SnapshotIsACopy ==
    \A p \in SnapProcs :
        req[p].op = "chat" /\ pc[p] \in {"dispatch", "ret"} =>
            /\ snap[p] = hist.given[p]
            /\ Len(attempts[p]) <= Len(hist.given[p])
            /\ attempts[p] = SubSeq(hist.given[p], 1, Len(attempts[p]))

\* C9 witness: a dispatch over a snapshot of two handles has called both, one
\* of them after a removal had taken it out of the pool.
C9_Witness ==
    \E p \in SnapProcs :
        /\ req[p].op = "chat" /\ hist.stale[p]
        /\ Len(hist.given[p]) = 2 /\ Len(attempts[p]) = 2

\* C10: a snapshot holds no handle whose removal had returned before the
\* snapshot call returned (and that no add has put back since), and holds
\* every handle whose add had returned before the snapshot call was invoked
\* (and that no removal has taken out since).
C10_SnapshotSeesCompletedCalls ==
    \A p \in Procs :
        req[p].op = "chat" /\ pc[p] \in {"dispatch", "ret"} =>
            LET got == {hist.given[p][i].api_key : i \in 1..Len(hist.given[p])}
            IN  /\ hist.incl[p] \subseteq got
                /\ hist.excl[p] \cap got = {}

\* C10 witness: a snapshot call that was invoked after an add had returned has
\* returned that handle while another request was in flight.
C10_Witness ==
    \E p, q \in Procs :
        /\ p # q /\ pc[q] # "idle"
        /\ req[p].op = "chat" /\ pc[p] = "dispatch"
        /\ hist.incl[p] # {}


\* ------------------------------------------------------- dispatch (C11-C15)
Dispatching(p) == req[p].op = "chat" /\ pc[p] \in {"dispatch", "ret"}
AllFalse(s) == \A i \in 1..Len(s) : ~s[i]

\* C11: a dispatch calls the handles of its snapshot in snapshot order, each
\* once; when handles 1..k-1 fail and handle k succeeds it makes exactly k
\* calls, answers with handle k's response, and calls no handle after k.
C11_FirstSuccessWins ==
    \A p \in SeqProcs :
        Dispatching(p) =>
            LET k == Len(attempts[p]) IN
            /\ Len(replies[p]) = k
            /\ k <= Len(snap[p])
            /\ attempts[p] = SubSeq(snap[p], 1, k)
            /\ NoDup(attempts[p])
            /\ AllFalse(SubSeq(replies[p], 1, k - 1))
            /\ (k > 0 /\ replies[p][k]) <=> (pc[p] = "ret" /\ result[p].code = 200)
            /\ (k > 0 /\ replies[p][k]) =>
                    /\ result[p].detail = "response"
                    /\ result[p].handle = snap[p][k]

\* C11 witness: the first handle of a two-handle snapshot failed, the second
\* succeeded, and its response is the answer.
C11_Witness ==
    \E p \in SeqProcs :
        /\ Finished(p, "chat")
        /\ Len(snap[p]) = 2
        /\ replies[p] = <<FALSE, TRUE>>
        /\ result[p].code = 200
        /\ result[p].handle = snap[p][2]

\* C12: a dispatch whose snapshot is empty fails with PoolEmpty (503) and
\* calls no upstream; a snapshot that is not empty never yields PoolEmpty.
C12_EmptySnapshotIsPoolEmpty ==
    \A p \in SeqProcs :
        Dispatching(p) =>
            /\ snap[p] = <<>> =>
                    /\ pc[p] = "ret"
                    /\ result[p].code = 503
                    /\ attempts[p] = <<>>
                    /\ replies[p] = <<>>
            /\ result[p].code = 503 => snap[p] = <<>>

\* C12 witness: a chat request met an empty pool and is answered 503.
C12_Witness ==
    \E p \in SeqProcs :
        /\ Finished(p, "chat")
        /\ all_keys = <<>>
        /\ snap[p] = <<>>
        /\ result[p].code = 503

\* C13: a dispatch whose N handles all fail has made exactly N calls, one per
\* handle of the snapshot, fails with AllKeysFailed (502), and carries the
\* error of the handle called last; AllKeysFailed is raised in no other case.
C13_AllFailedCarriesLastError ==
    \A p \in SeqProcs :
        Dispatching(p) /\ snap[p] # <<>> =>
            /\ (Len(replies[p]) = Len(snap[p]) /\ AllFalse(replies[p]))
                    <=> (pc[p] = "ret" /\ result[p].code = 502)
            /\ result[p].code = 502 =>
                    /\ attempts[p] = snap[p]
                    /\ result[p].handle = snap[p][Len(snap[p])]

\* C13 witness: both handles of a two-handle snapshot failed and the answer
\* is 502 with the second handle's error.
C13_Witness ==
    \E p \in SeqProcs :
        /\ Finished(p, "chat")
        /\ Len(snap[p]) = 2
        /\ replies[p] = <<FALSE, FALSE>>
        /\ result[p].code = 502
        /\ result[p].handle = snap[p][2]
        /\ result[p].handle # snap[p][1]

\* C14: a dispatch changes neither the ownership relation nor the handles
\* nor the rotation list nor keys.json, whatever its calls answer; a handle
\* whose call failed is still in the pool for the next request.
C14_DispatchLeavesPoolAlone ==
    \A p \in SeqProcs :
        Dispatching(p) =>
            /\ obs[p].post = obs[p].pre
            /\ Pool = obs[p].pre
            /\ \A i \in 1..Len(attempts[p]) :
                    /\ ListHas(all_keys, attempts[p][i].api_key)
                    /\ clients[attempts[p][i].api_key] = attempts[p][i].base_url

\* C14 witness: every handle of a dispatch failed while users own secrets that
\* are on disk; all of them are still in the pool.
C14_Witness ==
    \E p \in SeqProcs :
        /\ Finished(p, "chat")
        /\ result[p].code = 502
        /\ Len(attempts[p]) = 2
        /\ Len(all_keys) = 2
        /\ keys_json.exists


\* C15: no request holds the pool lock while its dispatch awaits an upstream
\* call: the lock is held only by a removal inside its critical section, so
\* the pool calls of other requests run to completion meanwhile.
C15_NoLockWhileDispatching ==
    /\ \A p \in SnapProcs : pc[p] = "dispatch" => lock # p
    /\ \A q \in SnapProcs : lock = q => pc[q] = "locked"

\* C15 witness: a dispatch has made its first call; the removal of the secret
\* of the second handle of its snapshot has run to completion meanwhile.
C15_Witness ==
    \E p, q \in SnapProcs :
        /\ p # q
        /\ pc[p] = "dispatch"
        /\ Len(attempts[p]) = 1
        /\ Len(snap[p]) = 2
        /\ Finished(q, "remove")
        /\ result[q].detail = "Key removed successfully"
        /\ req[q].api_key = snap[p][2].api_key
        /\ ~ListHas(all_keys, req[q].api_key)


\* ------------------------------------------------- user manager (C16-C20)
Gated(p) == req[p].op \in {"add", "list", "remove"} /\ pc[p] \in {"wait", "locked", "ret"}
Rejected(p) == pc[p] = "ret" /\ result[p].code = 401
\* the users whose list of secrets differs between two ownership relations
Touched(a, b) == {u \in Users : get_user_keys(a, u) # get_user_keys(b, u)}

\* C16: a token that has been logged out is in the token table never again,
\* whatever logins follow, and every add, list or remove that carries it is
\* rejected as unauthorized before it reaches the pool.
C16_LoggedOutTokenStaysInvalid ==
    /\ sess.revoked \cap DOMAIN tokens = {}
    /\ \A p \in AuthProcs :
        Gated(p) /\ args[p].token \in sess.revoked =>
            /\ Rejected(p)
            /\ Pool = sess.pre[p].pool

\* C16 witness: a token was returned by a login and logged out; its user has
\* logged in again since and holds a valid token; a token-gated request with
\* the old token is answered 401.
C16_Witness ==
    \E p \in AuthProcs :
        /\ Gated(p)
        /\ Rejected(p)
        /\ args[p].token \in DOMAIN sess.bound
        /\ args[p].token \in sess.revoked
        /\ \E t \in DOMAIN tokens :
            /\ t > args[p].token
            /\ tokens[t] = sess.bound[args[p].token]

\* C17: an add, list or remove whose token is not in the token table (never
\* issued, or logged out) is answered 401 and leaves the ownership relation,
\* the handles and keys.json as they were; with a token that is in the table
\* it runs for the user_id the token was bound to at login, and for no other.
C17_TokenGatesPoolCalls ==
    \A p \in AuthProcs :
        Gated(p) =>
            LET t == args[p].token IN
            IF t \notin DOMAIN sess.pre[p].tokens
            THEN /\ Rejected(p)
                 /\ Pool = sess.pre[p].pool
            ELSE /\ ~Rejected(p)
                 /\ req[p].user_id = sess.bound[t]
                 /\ Touched(user_keys, sess.pre[p].pool.user_keys) \subseteq {sess.bound[t]}
                 /\ Finished(p, "list") =>
                        result[p].keys = get_user_keys(user_keys, sess.bound[t])

\* C17 witness: an add with a token that no login ever returned is answered
\* 401 while a user is logged in and the pool holds a credential.
C17_Witness ==
    \E p \in AuthProcs :
        /\ Finished(p, "add")
        /\ args[p].token = NoToken
        /\ Rejected(p)
        /\ tokens # NoTokens
        /\ all_keys # <<>>

\* C18: a registration of a username that is registered already is answered
\* with the user_id of the first registration and "User already exists", and
\* changes neither the user table nor users.json: the password stays the one
\* of the first registration.
C18_RegisterTwiceSameUser ==
    \A p \in AuthProcs :
        Finished(p, "init") /\ sess.pre[p].users[args[p].username] # NoUser =>
            LET n == args[p].username IN
            /\ result[p].detail = "User already exists"
            /\ users = sess.pre[p].users
            /\ users_json = sess.pre[p].users_json
            /\ users[n].password = sess.first[n].password
            /\ users[n].user_id = sess.first[n].user_id
            /\ result[p].user_id = sess.first[n].user_id

\* C19: a login is answered 200 exactly when the username is registered and
\* the password is the stored one; otherwise it is answered 401, returns no
\* token, and leaves the user table, the token table, users.json and the pool
\* as they were.
C19_LoginChecksCredentials ==
    \A p \in AuthProcs :
        Finished(p, "login") =>
            LET stored == sess.pre[p].users[args[p].username]
                match == stored # NoUser /\ stored.password = args[p].password
            IN  /\ result[p].code = 200 <=> match
                /\ ~match =>
                    /\ result[p].code = 401
                    /\ result[p].token = NoToken
                    /\ State = sess.pre[p]
                /\ match =>
                    /\ result[p].token \in DOMAIN tokens
                    /\ tokens[result[p].token] = stored.user_id
                    /\ result[p].user_id = stored.user_id

\* C19 witness: a login of a registered user with a password that is not the
\* stored one is answered 401 while another session is open.
C19_Witness ==
    \E p \in AuthProcs :
        /\ Finished(p, "login")
        /\ users[args[p].username] # NoUser
        /\ users[args[p].username].password # args[p].password
        /\ result[p].code = 401
        /\ tokens # NoTokens

\* C20: a login adds one token that was not in the table, bound to the user
\* who logged in, and keeps every other token; a logout takes out its own
\* token and no other; so a token stays valid, and bound to the user_id of
\* its login, until that very token is logged out.
C20_TokensAreIndependent ==
    /\ \A t \in DOMAIN sess.bound :
        IF t \in sess.revoked
        THEN t \notin DOMAIN tokens
        ELSE t \in DOMAIN tokens /\ tokens[t] = sess.bound[t]
    /\ \A p \in AuthProcs :
        Finished(p, "login") /\ result[p].code = 200 =>
            /\ result[p].token \notin DOMAIN sess.pre[p].tokens
            /\ DOMAIN tokens = DOMAIN sess.pre[p].tokens \cup {result[p].token}
            /\ \A t \in DOMAIN sess.pre[p].tokens : tokens[t] = sess.pre[p].tokens[t]
    /\ \A p \in AuthProcs :
        Finished(p, "logout") =>
            /\ DOMAIN tokens = DOMAIN sess.pre[p].tokens \ {args[p].token}
            /\ \A t \in DOMAIN tokens : tokens[t] = sess.pre[p].tokens[t]

\* C20 witness: a user held two tokens at once and has logged one of them
\* out; the other is still valid and bound to the same user.
C20_Witness ==
    \E p \in AuthProcs :
        /\ Finished(p, "logout")
        /\ args[p].token \in DOMAIN sess.pre[p].tokens
        /\ \E t \in DOMAIN tokens :
            /\ t # args[p].token
            /\ tokens[t] = sess.pre[p].tokens[args[p].token]
            /\ tokens[t] = sess.bound[t]

\* ------------------------------------------------------------ C21 onwards
\* C21: a logout with a token that is not in the token table (never issued,
\* or logged out already) is answered 200 and leaves the token table, the
\* user table, users.json and the pool as they were; a second logout of a
\* token gives the table the first one gave.
C21_LogoutOfInactiveTokenIsNoOp ==
    /\ \A p \in AuthProcs :
        Finished(p, "logout") /\ args[p].token \notin DOMAIN sess.pre[p].tokens =>
            /\ result[p].code = 200
            /\ State = sess.pre[p]
    /\ \A t \in {NoToken} \cup 1..issued :
        logout(logout(tokens, t), t) = logout(tokens, t)

\* C21 witness: a token is logged out for the second time while another
\* token is valid; the answer is 200.
C21_Witness ==
    \E p \in AuthProcs :
        /\ Finished(p, "logout")
        /\ args[p].token \in DOMAIN sess.bound
        /\ args[p].token \notin DOMAIN sess.pre[p].tokens
        /\ tokens # NoTokens
        /\ result[p].code = 200

\* what a dispatch answers, given its snapshot and what the upstream replied
DispatchOutcome(s, r) ==
    IF s = <<>> THEN HttpError(503, "No API keys available in the pool")
    ELSE IF r # <<>> /\ r[Len(r)] THEN [Ok("response") EXCEPT !.handle = s[Len(r)]]
    ELSE [HttpError(502, "All API keys failed. Last error") EXCEPT !.handle = s[Len(s)]]

\* C22: a chat request is never answered 401 and never touches the user
\* manager; whatever token it carries and whatever the token table holds, its
\* snapshot is one of the pool it found, it calls the handles of the snapshot
\* in order, and its answer is a function of the snapshot and of the upstream
\* replies alone.
C22_DispatchIsAnonymous ==
    \A p \in AuthProcs :
        Dispatching(p) =>
            /\ result[p].code # 401
            /\ users = sess.pre[p].users
            /\ tokens = sess.pre[p].tokens
            /\ snap[p] \in get_all_clients_snapshot(sess.pre[p].pool.clients,
                                                    sess.pre[p].pool.all_keys)
            /\ attempts[p] = SubSeq(snap[p], 1, Len(replies[p]))
            /\ pc[p] = "ret" => result[p] = DispatchOutcome(snap[p], replies[p])
            /\ pc[p] = "dispatch" =>
                    /\ Len(replies[p]) < Len(snap[p])
                    /\ AllFalse(replies[p])

\* C22 witness: a chat request that carries a logged-out token is answered
\* by the upstream while no user is logged in.
C22_Witness ==
    \E p \in AuthProcs :
        /\ Finished(p, "chat")
        /\ result[p].code = 200
        /\ tokens = NoTokens
        /\ args[p].token \in sess.revoked

\* no request is inside a pool call
Quiet(P) == \A p \in P : pc[p] \in {"idle", "ret"}

\* C23: whenever the add and remove calls made so far have returned, loading
\* keys.json gives the ownership relation that is in memory.
C23_RestartReproducesOwnership ==
    Quiet(SeqProcs) =>
        \A k \in Keys :
            Owners(load_keys(keys_json).user_keys, k) = Owners(user_keys, k)

\* C24: whenever the add and remove calls made so far have returned, loading
\* keys.json gives one client for every owned secret and no other, each with
\* the base_url the client in memory was constructed with.
C24_RestartReproducesHandles ==
    Quiet(SeqProcs) =>
        \A k \in Keys :
            /\ load_keys(keys_json).clients[k] # NoClient <=> Owners(user_keys, k) # {}
            /\ k \in Active(clients) => load_keys(keys_json).clients[k] = clients[k]

\* C25: a user registered before a restart is in the user table after it,
\* with the password and the user_id of the registration: a login with that
\* password is answered 200 with that user_id, and a registration of the
\* username is answered "User already exists".
C25_UsersSurviveRestart ==
    /\ \A n \in Usernames : sess.first[n] # NoUser => users[n] = sess.first[n]
    /\ \A p \in AuthProcs :
        Finished(p, "login") /\ args[p].username \in sess.kept
                /\ args[p].password = sess.first[args[p].username].password =>
            /\ result[p].code = 200
            /\ result[p].user_id = sess.first[args[p].username].user_id
    /\ \A p \in AuthProcs :
        Finished(p, "init") /\ args[p].username \in sess.kept =>
            result[p].detail = "User already exists"

\* C25 witness: after a restart a user registered before it has logged in
\* with the password of the registration.
C25_Witness ==
    \E p \in AuthProcs :
        /\ Finished(p, "login")
        /\ args[p].username \in sess.kept
        /\ result[p].code = 200
        /\ result[p].user_id = sess.first[args[p].username].user_id

\* load_keys, respectively load_users, raises inside its try block
KeysLoadFails(file) ==
    /\ file.exists
    /\ \/ ~file.json
       \/ \E i \in 1..Len(file.data.user_keys) : file.data.user_keys[i].keys = NotAList
UsersLoadFails(file) == file.exists /\ ~file.json

\* C26: the server starts whatever keys.json and users.json hold; when the
\* load of keys.json fails the pool starts with no user, no client and an
\* empty rotation list, and when the load of users.json fails the user table
\* starts empty.
C26_FailedLoadStartsEmpty ==
    (\A p \in SeqProcs : pc[p] = "idle") =>
        /\ KeysLoadFails(keys_json) =>
                /\ user_keys = <<>>
                /\ clients = EmptyClients
                /\ all_keys = <<>>
        /\ UsersLoadFails(users_json) => users = EmptyUsers

\* the tasks of the batch that are past the gate and have not ended
InFlight == {i \in 1..Len(batch.task) : batch.task[i] = "flying"}
Ended(kind) == {i \in 1..Len(batch.task) : batch.task[i] = kind}

\* C27: the list a batch returns has one entry per input, and entry i is the
\* response to input i, in whatever order the requests completed.
C27_BatchKeepsInputOrder ==
    /\ \A i \in 1..Len(batch.task) :
        batch.results[i] = IF batch.task[i] = "done" THEN ResponseTo(i) ELSE None
    /\ batch.outcome.kind = "returned" =>
        /\ Len(batch.outcome.results) = batch.n
        /\ \A i \in 1..batch.n : batch.outcome.results[i] = ResponseTo(i)

\* C27 witness: a batch of three has returned its list although a later
\* input was answered before an earlier one.
C27_Witness ==
    /\ batch.outcome.kind = "returned"
    /\ batch.n = 3
    /\ \E j \in 1..(Len(blog) - 1) : blog[j] > blog[j + 1]

\* C28: the tasks of a batch that are past the gate and have not ended are
\* never more than the concurrency argument.
C28_InFlightWithinLimit ==
    /\ Cardinality(InFlight) <= batch.concurrency
    /\ batch.sem + Cardinality(InFlight) = batch.concurrency

\* C28 witness: as many tasks as the limit allows are in flight and another
\* task of the batch waits at the gate.
C28_Witness ==
    /\ batch.concurrency = 2
    /\ Cardinality(InFlight) = 2
    /\ \E i \in 1..Len(batch.task) : batch.task[i] = "created"

\* the task that failed first
FirstFailed == blog[CHOOSE j \in 1..Len(blog) :
                        /\ batch.task[blog[j]] = "failed"
                        /\ \A h \in 1..(j - 1) : batch.task[blog[h]] # "failed"]

\* C29: a batch call raises as soon as one of its requests fails, with the
\* error of the request that failed first, and then returns no list; the
\* list it returns otherwise has a response at every position.
C29_FirstFailureAbortsBatch ==
    /\ batch # NoBatch =>
        (batch.outcome.kind = "raised" <=> Ended("failed") # {})
    /\ batch.outcome.kind = "raised" =>
        /\ batch.outcome.results = <<>>
        /\ batch.outcome.error = ToString(FirstFailed)
    /\ batch.outcome.kind = "returned" =>
        /\ Ended("done") = 1..batch.n
        /\ \A i \in 1..batch.n : batch.outcome.results[i] # None

\* C29 witness: one request of a batch has been answered, a later one has
\* failed and the call has raised while a third is still in flight.
C29_Witness ==
    /\ batch.outcome.kind = "raised"
    /\ Ended("done") # {}
    /\ InFlight # {}
    /\ Cardinality(Ended("failed")) = 1

\* C30 as stated: the construction fails, naming API_FARM_SERVER_URL, when
\* neither the argument nor the variable is set; otherwise it succeeds with
\* the argument if one is given, else with the value of the variable.
C30_FailsOnlyWhenNothingIsSet ==
    sdk.state # "none" =>
        /\ sdk.state = "error" <=> (sdk.arg = Unset /\ sdk.env = Unset)
        /\ sdk.state = "error" => sdk.error = "ValueError: API_FARM_SERVER_URL"
        /\ sdk.state = "ok" =>
                sdk.server_url = IF sdk.arg # Unset THEN sdk.arg ELSE sdk.env

\* C30, amended: the construction fails, naming API_FARM_SERVER_URL, exactly
\* when the argument is the empty string, or is absent while the variable is
\* unset or empty; otherwise it succeeds with a server_url that is not empty:
\* the argument if one is given, else the value of the variable.
C30_FailsWhenUrlMissingOrEmpty ==
    sdk.state # "none" =>
        /\ sdk.state = "error" <=>
                \/ sdk.arg = ""
                \/ sdk.arg = Unset /\ sdk.env \in {Unset, ""}
        /\ sdk.state = "error" =>
                /\ sdk.error = "ValueError: API_FARM_SERVER_URL"
                /\ sdk.server_url = Unset
        /\ sdk.state = "ok" =>
                /\ sdk.server_url \in ServerUrls
                /\ sdk.server_url = IF sdk.arg # Unset THEN sdk.arg ELSE sdk.env

\* C30 witness: the construction with an empty server_url argument has
\* failed although the variable holds a usable address.
C30_Witness ==
    /\ sdk.state = "error"
    /\ sdk.arg = ""
    /\ sdk.env \in ServerUrls

\* C31: after logout() the client holds no token, and the list_keys() that
\* follows raises RuntimeError instead of returning.
C31_ListKeysAfterLogoutRaises ==
    /\ sdk.last.method = "logout" => sdk.token = NoToken
    /\ sdk.last.method = "list_keys" /\ sdk.before = "logout" =>
            sdk.last.outcome = "RuntimeError"

\* ------------------------------------------------------ last sitting (C32-C40)
\* p's removal found the caller's edge and took it out
TookEdge(p) ==
    /\ Finished(p, "remove")
    /\ result[p].detail \in
            {"Key removed successfully", "Key should not be used by any other user"}
\* p's removal took the handle out of the clients map and the rotation list
Fired(p) == Finished(p, "remove") /\ result[p].detail = "Key removed successfully"

\* C32: when the two owners of a credential remove it at the same time, the
\* two critical sections never overlap, exactly one of the two removals takes
\* the handle out of the pool, and once both have run the credential has no
\* owner, no client and no place in the rotation list.
C32_RacingRemovalsFireOnce ==
    /\ \A p, q \in RaceProcs : pc[p] = "locked" /\ pc[q] = "locked" => p = q
    /\ \A p \in RaceProcs : pc[p] = "locked" <=> lock = p
    /\ \A p, q \in RaceProcs :
        p # q /\ TookEdge(p) /\ TookEdge(q) /\ req[p].user_id # req[q].user_id =>
            /\ Fired(p) # Fired(q)
            /\ \A k \in ConcKeys :
                /\ Owners(user_keys, k) = {}
                /\ k \notin Active(clients)
                /\ ~ListHas(all_keys, k)

\* C32 witness: both owners' removals were in flight together and both have
\* run, the later one having waited for the pool call of the earlier one.
C32_Witness ==
    \E p, q \in RaceProcs :
        /\ p # q /\ req[p].user_id # req[q].user_id
        /\ TookEdge(p) /\ TookEdge(q)
        /\ Fired(q)

\* C33: a dispatch makes at most as many upstream calls as its snapshot has
\* handles, on the handles of the snapshot in their order and so never twice
\* on one; it ends with the response of the handle called last, with "All
\* API keys failed" after the whole snapshot has failed, or with "No API keys
\* available" on an empty snapshot; and when every upstream call ends, every
\* chat request ends in one of the three.
C33_DispatchEnds ==
    /\ [](\A p \in LiveProcs :
            Dispatching(p) =>
                /\ Len(attempts[p]) <= Len(snap[p])
                /\ attempts[p] = SubSeq(snap[p], 1, Len(attempts[p]))
                /\ NoDup(attempts[p])
                /\ pc[p] = "ret" =>
                    \/ result[p].code = 503 /\ snap[p] = <<>>
                    \/ /\ result[p].code = 502
                       /\ snap[p] # <<>> /\ Len(attempts[p]) = Len(snap[p])
                    \/ /\ result[p].code = 200
                       /\ attempts[p] # <<>>
                       /\ result[p].handle = attempts[p][Len(attempts[p])])
    /\ \A p \in LiveProcs :
        (req[p].op = "chat" /\ pc[p] = "wait")
            ~> (req[p].op = "chat" /\ pc[p] = "ret" /\ result[p].code \in {200, 502, 503})

\* C33 witness: a dispatch over two handles has ended with "All API keys
\* failed" after two calls while another request was in flight.
C33_Witness ==
    \E p, q \in LiveProcs :
        /\ p # q /\ pc[q] # "idle"
        /\ Dispatching(p) /\ pc[p] = "ret"
        /\ result[p].code = 502
        /\ Len(attempts[p]) = 2

\* C34: every upstream call of a dispatch is made with stream = False,
\* whatever stream flag the chat request carries.
C34_UpstreamCallsDoNotStream ==
    \A p \in AuthProcs :
        Dispatching(p) /\ attempts[p] # <<>> => create(args[p]).stream = FALSE

\* C35: a request on a pool of n clients calls no client twice, and ends with
\* AllKeysFailed only after it has called every one of the n clients.
C35_EachClientTriedOnce ==
    \A i \in 1..MaxBatch :
        /\ NoDup(rr.task[i].tried)
        /\ rr.task[i].st = "raised" => SeqSet(rr.task[i].tried) = 1..rr.n

\* C36: no add or removal changes the pool or keys.json when its pool call
\* begins after the logout of the token it carries has returned.
C36_NoMutationAfterLogout == sess.bypass = {}

\* p's registration is reported as having created the user
Created(p) == Finished(p, "init") /\ result[p].detail = "User registered successfully"

\* C37: of two registrations of one username that was not registered when
\* either arrived, exactly one is reported as created, both are answered with
\* the user_id of the one record the table holds for the username, and that
\* record holds the password of the registration that created it.
C37_RacingRegistrationsAgree ==
    \A p, q \in RegProcs :
        /\ p # q
        /\ Finished(p, "init") /\ Finished(q, "init")
        /\ args[p].username = args[q].username
        /\ sess.pre[p].users[args[p].username] = NoUser
        /\ sess.pre[q].users[args[q].username] = NoUser
        => LET n == args[p].username IN
           /\ Created(p) # Created(q)
           /\ users[n] # NoUser
           /\ result[p].user_id = users[n].user_id
           /\ result[q].user_id = users[n].user_id
           /\ Created(p) => users[n].password = args[p].password
           /\ Created(q) => users[n].password = args[q].password

\* the same without the user_id of the answers
C37_OneRecordOneCreator ==
    \A p, q \in RegProcs :
        /\ p # q
        /\ Finished(p, "init") /\ Finished(q, "init")
        /\ args[p].username = args[q].username
        /\ sess.pre[p].users[args[p].username] = NoUser
        /\ sess.pre[q].users[args[q].username] = NoUser
        => LET n == args[p].username IN
           /\ Created(p) # Created(q)
           /\ users[n] # NoUser
           /\ Created(p) => users[n].password = args[p].password
           /\ Created(q) => users[n].password = args[q].password

\* C38: the pool's lock is held only inside a pool call, a pool call that
\* holds it gives it back, also when the removal ends in the still-owned
\* error, and every request that waits for its pool call or for its snapshot
\* gets through it, whether or not the dispatches in flight are ever answered.
C38_LockIsReleased ==
    /\ [](lock # NoProc => pc[lock] = "locked")
    /\ \A p \in LiveProcs : (pc[p] = "locked") ~> (lock = NoProc)
    /\ \A p \in LiveProcs : (pc[p] = "wait") ~> (pc[p] \in {"ret", "dispatch"})

\* C38 witness: a removal has ended in the still-owned error and given the
\* lock back while a dispatch waits for its upstream.
C38_Witness ==
    \E p, q \in LiveProcs :
        /\ pc[p] = "dispatch" /\ attempts[p] = <<>>
        /\ Finished(q, "remove")
        /\ result[q].detail = "Key should not be used by any other user"
        /\ lock = NoProc

\* C39: after a restart no token that a login returned before it is in the
\* token table, and a token-gated request that carries one is answered 401;
\* the users registered before the restart are still there, and a login with
\* the registered password is answered 200 with a token that is not one of
\* the old ones.
C39_TokensDoNotSurviveRestart ==
    /\ sess.old \cap DOMAIN tokens = {}
    /\ \A n \in sess.kept : users[n] # NoUser
    /\ \A p \in AuthProcs :
        /\ pc[p] = "ret" /\ req[p].op \in {"list", "add", "remove"}
                /\ args[p].token \in sess.old
            => result[p].code = 401
        /\ Finished(p, "login") /\ args[p].username \in sess.kept
                /\ args[p].password = sess.first[args[p].username].password
            => /\ result[p].code = 200
               /\ result[p].token \notin sess.old
               /\ result[p].token \in DOMAIN tokens

\* C39 witness: after a restart the user of an old token has logged in again
\* and got a new token, and a listing with the old token is answered 401.
C39_Witness ==
    \E p \in AuthProcs, t \in sess.old, n \in sess.kept :
        /\ Finished(p, "list")
        /\ args[p].token = t
        /\ result[p].code = 401
        /\ sess.bound[t] = users[n].user_id
        /\ \E t2 \in DOMAIN tokens : tokens[t2] = users[n].user_id

====
